---- MODULE Spec2Model ----
(***************************************************************************)
(* Flights-Posting: the city-review aggregates, the post-like toggle, the  *)
(* ownership checks of posts and comments, soft delete and restore, the    *)
(* paginated lists, authentication and registration (app/handlers/*.py,    *)
(* app/routes/*.py, app/config/auth.py), over the relational store         *)
(* declared in app/models/*.py.                                            *)
(***************************************************************************)
EXTENDS Integers, Sequences, FiniteSets

(***************************************************************************)
(* City.average_rating is a Float column holding a Python float, that is   *)
(* an IEEE-754 binary64.  A float is modelled exactly: sign, exponent and  *)
(* a 53-bit significand kept as little-endian limbs of LimbBits bits, and  *)
(* every operation rounds to nearest, ties to even, as Python's *, + and / *)
(* do.  (No subnormals, infinities or NaN: the values here stay far from   *)
(* them.)                                                                  *)
(***************************************************************************)
LimbBits == 15
Base == 32768
Mantissa == 53

RECURSIVE Pow2(_)
Pow2(k) == IF k = 0 THEN 1 ELSE 2 * Pow2(k - 1)

RECURSIVE IntBitLen(_)
IntBitLen(n) == IF n = 0 THEN 0 ELSE 1 + IntBitLen(n \div 2)

RECURSIVE Zeros(_)
Zeros(k) == IF k = 0 THEN <<>> ELSE <<0>> \o Zeros(k - 1)

RECURSIVE BigTrim(_)
BigTrim(a) ==
    IF a = <<>> THEN <<>>
    ELSE IF a[Len(a)] = 0 THEN BigTrim(SubSeq(a, 1, Len(a) - 1))
    ELSE a

RECURSIVE BigMulCarry(_, _, _)
BigMulCarry(a, n, c) ==
    IF a = <<>>
    THEN IF c = 0 THEN <<>> ELSE <<c % Base>> \o BigMulCarry(<<>>, n, c \div Base)
    ELSE LET t == a[1] * n + c
         IN  <<t % Base>> \o BigMulCarry(Tail(a), n, t \div Base)

BigMulSmall(a, n) == BigTrim(BigMulCarry(a, n, 0))

\* long division by a small divisor, from the highest limb down
RECURSIVE BigDivRem(_, _, _)
BigDivRem(a, n, r) ==
    IF a = <<>> THEN [q |-> <<>>, r |-> r]
    ELSE LET cur == r * Base + a[Len(a)]
             rest == BigDivRem(SubSeq(a, 1, Len(a) - 1), n, cur % n)
         IN  [q |-> rest.q \o <<cur \div n>>, r |-> rest.r]

RECURSIVE BigAddCarry(_, _, _)
BigAddCarry(a, b, c) ==
    IF a = <<>> /\ b = <<>> THEN (IF c = 0 THEN <<>> ELSE <<c>>)
    ELSE LET x == IF a = <<>> THEN 0 ELSE a[1]
             y == IF b = <<>> THEN 0 ELSE b[1]
             t == x + y + c
         IN  <<t % Base>> \o BigAddCarry(IF a = <<>> THEN <<>> ELSE Tail(a),
                                         IF b = <<>> THEN <<>> ELSE Tail(b),
                                         t \div Base)

BigAdd(a, b) == BigTrim(BigAddCarry(a, b, 0))

\* a - b for a >= b
RECURSIVE BigSubBorrow(_, _, _)
BigSubBorrow(a, b, c) ==
    IF a = <<>> THEN <<>>
    ELSE LET y == IF b = <<>> THEN 0 ELSE b[1]
             t == a[1] - y - c
         IN  <<IF t < 0 THEN t + Base ELSE t>>
             \o BigSubBorrow(Tail(a), IF b = <<>> THEN <<>> ELSE Tail(b),
                             IF t < 0 THEN 1 ELSE 0)

BigSub(a, b) == BigTrim(BigSubBorrow(a, b, 0))

\* -1, 0, 1 for trimmed a, b
RECURSIVE BigCmp(_, _)
BigCmp(a, b) ==
    IF Len(a) # Len(b) THEN (IF Len(a) < Len(b) THEN -1 ELSE 1)
    ELSE IF a = <<>> THEN 0
    ELSE IF a[Len(a)] # b[Len(b)] THEN (IF a[Len(a)] < b[Len(b)] THEN -1 ELSE 1)
    ELSE BigCmp(SubSeq(a, 1, Len(a) - 1), SubSeq(b, 1, Len(b) - 1))

BigShl(a, k) ==
    IF a = <<>> THEN <<>>
    ELSE Zeros(k \div LimbBits) \o BigMulSmall(a, Pow2(k % LimbBits))

BigShr(a, k) ==
    IF Len(a) <= k \div LimbBits THEN <<>>
    ELSE BigTrim(BigDivRem(SubSeq(a, (k \div LimbBits) + 1, Len(a)),
                           Pow2(k % LimbBits), 0).q)

BigLow(a, k) == BigSub(a, BigShl(BigShr(a, k), k))

BitLen(a) == IF a = <<>> THEN 0 ELSE LimbBits * (Len(a) - 1) + IntBitLen(a[Len(a)])

FZero == [neg |-> FALSE, e |-> 0, m |-> <<>>]

\* the binary64 nearest to (-1)^neg * (a + sticky) * 2^e, ties to even
FRound(neg, a0, e, sticky) ==
    LET a == BigTrim(a0)
        L == BitLen(a)
    IN  IF a = <<>> THEN FZero
        ELSE IF L <= Mantissa
        THEN [neg |-> neg, e |-> e - (Mantissa - L), m |-> BigShl(a, Mantissa - L)]
        ELSE LET s == L - Mantissa
                 q == BigShr(a, s)
                 c == BigCmp(BigLow(a, s), BigShl(<<1>>, s - 1))
                 up == c > 0 \/ (c = 0 /\ (sticky \/ q[1] % 2 = 1))
                 q2 == IF up THEN BigAdd(q, <<1>>) ELSE q
             IN  IF BitLen(q2) > Mantissa
                 THEN [neg |-> neg, e |-> e + s + 1, m |-> BigShr(q2, 1)]
                 ELSE [neg |-> neg, e |-> e + s, m |-> q2]

IntAbs(k) == IF k < 0 THEN -k ELSE k

\* float(k), |k| < Base
FromInt(k) == FRound(k < 0, <<IntAbs(k)>>, 0, FALSE)

\* x * n for an int 0 <= n < 2^14
FMul(x, n) ==
    IF n = 0 \/ x.m = <<>> THEN FZero
    ELSE FRound(x.neg, BigMulSmall(x.m, n), x.e, FALSE)

\* x / n for an int 1 <= n < 2^6
FDiv(x, n) ==
    IF x.m = <<>> THEN FZero
    ELSE LET d == BigDivRem(BigShl(x.m, 8), n, 0)
         IN  FRound(x.neg, d.q, x.e - 8, d.r # 0)

RECURSIVE BigToInt(_)
BigToInt(a) == IF a = <<>> THEN 0 ELSE a[1] + Base * BigToInt(Tail(a))

\* math.ceil(x) for a float x >= 0
FCeil(x) ==
    IF x.m = <<>> THEN 0
    ELSE IF x.e >= 0 THEN BigToInt(BigShl(x.m, x.e))
    ELSE BigToInt(BigShr(x.m, -x.e)) + (IF BigLow(x.m, -x.e) = <<>> THEN 0 ELSE 1)

\* x + k for an int |k| < 2^10
FAddInt(x, k) ==
    IF k = 0 THEN x
    ELSE IF x.m = <<>> THEN FromInt(k)
    ELSE IF x.e > 0 THEN
         (IF x.e > 12 THEN x
          ELSE LET A == BigShl(x.m, x.e)
                   B == <<IntAbs(k)>>
               IN  IF x.neg = (k < 0) THEN FRound(x.neg, BigAdd(A, B), 0, FALSE)
                   ELSE FRound(x.neg, BigSub(A, B), 0, FALSE))
    ELSE IF x.e < -130 THEN FromInt(k)
    ELSE LET A == x.m
             B == BigShl(<<IntAbs(k)>>, -x.e)
             c == BigCmp(A, B)
         IN  IF x.neg = (k < 0) THEN FRound(x.neg, BigAdd(A, B), x.e, FALSE)
             ELSE IF c = 0 THEN FZero
             ELSE IF c > 0 THEN FRound(x.neg, BigSub(A, B), x.e, FALSE)
             ELSE FRound(k < 0, BigSub(B, A), x.e, FALSE)


(***************************************************************************)
(* Bounds of the model.                                                    *)
(***************************************************************************)
MaxUsers == 2          \* registered users in the small specifications
MaxAggUsers == 8       \* registered users where the aggregates are summed
NumCities == 2         \* cities in the small specifications
LowRating == 2         \* ratings submitted: LowRating and MaxRating
MaxReviews == 2        \* Review rows in the small specifications
MaxPosts == 2          \* posts created
MaxLikeCount == 2      \* cap of like_count where requests interleave
MaxClock == 2          \* last value of the clock
MaxFlights == 2        \* flights created
MaxPage == 2           \* page numbers requested: 1..MaxPage
MaxSize == 2           \* page sizes requested: 1..MaxSize
MaxEmails == 4         \* addresses a registration may give

\* ReviewBase.rating: Field(..., ge=1, le=5)
MinRating == 1
MaxRating == 5
RatingInputs == {LowRating, MaxRating}

None == 0              \* a NULL timestamp / an absent int
NoText == "None"       \* an absent string
MissingId == 0         \* an id no row has

VARIABLES
    users,      \* ids of the rows of table users
    emails,     \* column users.email: user id -> email
    cities,     \* table cities: id -> row
    flights,    \* table flights: id -> row
    reviews,    \* table reviews: set of rows
    photos,     \* table photos: city id -> the urls of its rows, by position
    posts,      \* table posts: id -> row
    likes,      \* table post_likes: <<user_id, post_id>> -> number of rows
    comments,   \* table comments: id -> row
    now,        \* datetime.utcnow()
    req,        \* the requests in flight: slot -> session state
    last        \* the response of the latest finished request

vars == <<users, emails, cities, flights, reviews, photos, posts, likes, comments, now, req, last>>

\* two requests are served at the same time (FastAPI runs the sync endpoints
\* in its thread pool, each with its own session from get_db)
Slots == {1, 2}
Idle == [pc |-> "idle"]
NoResponse == [op |-> "none", status |-> 0]
Respond(op, status) == last' = [op |-> op, status |-> status]

\* City(): average_rating default=0.0, review_count default=0
NewCity == [average_rating |-> FZero, review_count |-> 0, deleted_at |-> None]

\* City(name=...): the row of a new city; cities.name is unique
CityRow(name) ==
    [name |-> name, average_rating |-> NewCity.average_rating,
     review_count |-> NewCity.review_count, deleted_at |-> NewCity.deleted_at]

\* Flight(**flight_in.model_dump()): the row of a new flight
FlightRow(flight_number, origin_city_id, destination_city_id, departure) ==
    [flight_number |-> flight_number, origin_city_id |-> origin_city_id,
     destination_city_id |-> destination_city_id, departure |-> departure,
     deleted_at |-> None]

InitWith(nUsers, nCities) ==
    /\ users = 1..nUsers
    /\ emails = [u \in 1..nUsers |-> u]
    /\ cities = [c \in 1..nCities |-> CityRow(nCities + 1 - c)]
    /\ flights = [f \in {1} |-> FlightRow(1, 1, 1, 1)]
    /\ reviews = {}
    /\ photos = [c \in 1..nCities |-> <<c>>]
    /\ posts = << >>
    /\ likes = [k \in (1..nUsers) \X (1..MaxPosts) |-> 0]
    /\ comments = << >>
    /\ now = 1
    /\ req = [s \in Slots |-> Idle]
    /\ last = NoResponse

Init == InitWith(MaxUsers, NumCities)
InitSubmit == InitWith(MaxAggUsers, 1)
InitAgg == InitWith(MaxAggUsers - 1, 1)

(***************************************************************************)
(* Cities and reviews (app/handlers/city.py, app/routes/city.py).          *)
(***************************************************************************)
\* get_city_by_id: City.id == city_id and City.deleted_at IS NULL
get_city_by_id(city_id) ==
    city_id \in DOMAIN cities /\ cities[city_id].deleted_at = None

\* the rows of (city, user): the query of add_review_to_city
ReviewsOf(city_id, user_id) ==
    {r \in reviews : r.city_id = city_id /\ r.user_id = user_id}

CityReviews(city_id) == {r \in reviews : r.city_id = city_id}

RECURSIVE SumRatings(_)
SumRatings(rs) ==
    IF rs = {} THEN 0
    ELSE LET r == CHOOSE x \in rs : TRUE IN r.rating + SumRatings(rs \ {r})

\* Base.id: default uuid4, a fresh id
NewReviewId(city_id, user_id) ==
    <<city_id, user_id, Cardinality(ReviewsOf(city_id, user_id)) + 1>>

\* add_review_to_city leaving review_count as it was
add_review_aggregates_KeepsCount(city, rating) ==
    [city EXCEPT !.average_rating = FromInt(rating)]

\* add_review_to_city: the recomputed aggregates of the city row
add_review_aggregates(city, rating) ==
    LET current_total == FMul(city.average_rating, city.review_count)
        new_count == city.review_count + 1
        new_total == FAddInt(current_total, rating)
    IN  [city EXCEPT !.average_rating = FDiv(new_total, new_count),
                     !.review_count = new_count]

\* update_review: the recomputed average of the city row
update_review_average(city, delta) ==
    LET total_before == FMul(city.average_rating, city.review_count)
        total_after == FAddInt(total_before, delta)
    IN  FDiv(total_after, city.review_count)

\* the UPDATE the unit of work emits for a row loaded as `loaded` and now
\* holding `assigned`: only the attributes whose value changed are written
WriteChanged(current, loaded, assigned) ==
    [f \in DOMAIN current |-> IF assigned[f] # loaded[f] THEN assigned[f] ELSE current[f]]

\* the flush and commit of add_review_to_city for a city loaded as loaded_city:
\* INSERT of the Review row and UPDATE of the city's aggregates
CommitReview(op, u, c, loaded_city, rating, comment) ==
    /\ reviews' = reviews \cup
          {[id |-> NewReviewId(c, u), city_id |-> c, user_id |-> u,
            rating |-> rating, comment |-> comment]}
    /\ cities' = [cities EXCEPT ![c] =
                     WriteChanged(@, loaded_city, add_review_aggregates(loaded_city, rating))]
    /\ Respond(op, 201)

\* add_review_to_city without the query for an existing review
CreateCityReview_NoConflictCheck(u, c, rating, comment) ==
    /\ u \in users
    /\ UNCHANGED <<users, emails, photos, flights, posts, likes, comments, now, req>>
    /\ IF ~get_city_by_id(c)
       THEN Respond("create_city_review", 404) /\ UNCHANGED <<cities, reviews>>
       ELSE CommitReview("create_city_review", u, c, cities[c], rating, comment)

\* POST /cities/{city_id}/reviews served alone: create_city_review,
\* add_review_to_city
CreateCityReview(u, c, rating, comment) ==
    /\ u \in users
    /\ UNCHANGED <<users, emails, photos, flights, posts, likes, comments, now, req>>
    /\ IF ~get_city_by_id(c)
       THEN Respond("create_city_review", 404) /\ UNCHANGED <<cities, reviews>>
       ELSE IF ReviewsOf(c, u) # {}
       THEN Respond("create_city_review", 400) /\ UNCHANGED <<cities, reviews>>
       ELSE CommitReview("create_city_review", u, c, cities[c], rating, comment)

\* The route function patch_review and its handler update_review, as they
\* run when called (see PatchCities for the requests that reach them).
\* rating = None and comment = NoText are the fields the request leaves out.
PatchReview(u, review_id, rating, comment) ==
    /\ u \in users
    /\ UNCHANGED <<users, emails, photos, flights, posts, likes, comments, now, req>>
    /\ LET found == {r \in reviews : r.id = review_id} IN
       IF found = {} \/ (\E r \in found : r.user_id # u)
       THEN Respond("patch_review", 404) /\ UNCHANGED <<cities, reviews>>
       ELSE LET db_review == CHOOSE r \in found : TRUE
                old_rating == db_review.rating
                new_rating == IF rating # None THEN rating ELSE old_rating
                delta == new_rating - old_rating
                city == cities[db_review.city_id]
                updated == [db_review EXCEPT
                               !.rating = new_rating,
                               !.comment = IF comment # NoText THEN comment ELSE @]
            IN  IF city.review_count = 0
                THEN \* ZeroDivisionError: the session is closed without commit
                     Respond("patch_review", 500) /\ UNCHANGED <<cities, reviews>>
                ELSE /\ reviews' = (reviews \ {db_review}) \cup {updated}
                     /\ cities' = [cities EXCEPT ![db_review.city_id].average_rating =
                                       update_review_average(city, delta)]
                     /\ Respond("patch_review", 200)

ReviewIds == {r.id : r \in reviews}

\* review submissions only, one after another
NextSubmit ==
    \E u \in users, c \in DOMAIN cities, rating \in RatingInputs :
        CreateCityReview(u, c, rating, NoText)

SpecSubmit == InitSubmit /\ [][NextSubmit]_vars

\* submissions and updates of reviews, one after another
NextAgg ==
    \/ \E u \in users, c \in DOMAIN cities, rating \in RatingInputs :
           CreateCityReview(u, c, rating, NoText)
    \/ \E r \in reviews, rating \in RatingInputs \cup {None} :
           PatchReview(r.user_id, r.id, rating, NoText)

SpecAgg == InitAgg /\ [][NextAgg]_vars

NextReview ==
    \/ \E u \in users, c \in DOMAIN cities \cup {MissingId}, rating \in RatingInputs :
           /\ Cardinality(reviews) < MaxReviews \/ ReviewsOf(c, u) # {}
           /\ CreateCityReview(u, c, rating, NoText)
    \/ \E u \in users, id \in ReviewIds \cup {<<MissingId, MissingId, 1>>},
          rating \in RatingInputs \cup {None} :
           PatchReview(u, id, rating, NoText)

SpecReview == Init /\ [][NextReview]_vars

(***************************************************************************)
(* Posts, comments and likes (app/handlers/post.py, comment.py, like.py,   *)
(* app/routes/post.py).                                                    *)
(***************************************************************************)
Max(a, b) == IF a > b THEN a ELSE b

\* get_post_by_id without the filter on deleted_at
get_post_by_id_IgnoresDeletedAt(post_id) == post_id \in DOMAIN posts

\* get_post_by_id: Post.id == post_id and Post.deleted_at IS NULL
get_post_by_id(post_id) ==
    post_id \in DOMAIN posts /\ posts[post_id].deleted_at = None

\* get_comment_by_id: Comment.id == comment_id and Comment.deleted_at IS NULL
get_comment_by_id(comment_id) ==
    comment_id \in DOMAIN comments /\ comments[comment_id].deleted_at = None

\* for field, value in update_data.items(): setattr(row, field, value)
SetAttrs(row, update_data) ==
    [f \in DOMAIN row |-> IF f \in DOMAIN update_data THEN update_data[f] ELSE row[f]]

\* model_dump(exclude_unset=True) of a PostUpdate: the fields the request sets
PostUpdates ==
    UNION {[fs -> {"b"}] : fs \in SUBSET {"title", "description"}}

\* model_dump(exclude_unset=True) of a CommentUpdate
CommentUpdates == UNION {[fs -> {"b"}] : fs \in SUBSET {"content"}}

\* POST /posts/: create_post
CreatePost(u, f, title, description) ==
    /\ u \in users
    /\ UNCHANGED <<users, emails, photos, cities, flights, reviews, likes, comments, now, req>>
    /\ IF ~(f \in DOMAIN flights /\ flights[f].deleted_at = None)
       THEN Respond("create_post", 404) /\ UNCHANGED posts
       ELSE /\ posts' = Append(posts, [user_id |-> u, flight_id |-> f, title |-> title,
                                       description |-> description, like_count |-> 0,
                                       created_at |-> now, deleted_at |-> None])
            /\ Respond("create_post", 201)

\* PATCH /posts/{post_id}: route update_post, handler update_post
UpdatePost(u, p, post_in) ==
    /\ u \in users
    /\ UNCHANGED <<users, emails, photos, cities, flights, reviews, likes, comments, now, req>>
    /\ IF ~get_post_by_id(p)
       THEN Respond("update_post", 404) /\ UNCHANGED posts
       ELSE IF posts[p].user_id # u
       THEN Respond("update_post", 403) /\ UNCHANGED posts
       ELSE /\ posts' = [posts EXCEPT ![p] = SetAttrs(@, post_in)]
            /\ Respond("update_post", 200)

\* DELETE /posts/{post_id}: route delete_post, handler soft_delete_post
DeletePost(u, p) ==
    /\ u \in users
    /\ UNCHANGED <<users, emails, photos, cities, flights, reviews, likes, comments, now, req>>
    /\ IF ~get_post_by_id(p)
       THEN Respond("delete_post", 404) /\ UNCHANGED posts
       ELSE IF posts[p].user_id # u
       THEN Respond("delete_post", 403) /\ UNCHANGED posts
       ELSE /\ posts' = [posts EXCEPT ![p].deleted_at =
                            IF @ = None THEN now ELSE @]
            /\ Respond("delete_post", 200)

\* restore_post clearing deleted_at before the check of the author
RestorePost_RestoresBeforeCheck(u, p) ==
    /\ u \in users
    /\ UNCHANGED <<users, emails, photos, cities, flights, reviews, likes, comments, now, req>>
    /\ IF p \in DOMAIN posts /\ posts[p].deleted_at # None
       THEN /\ posts' = [posts EXCEPT ![p].deleted_at = None]
            /\ Respond("restore_post", IF posts[p].user_id # u THEN 403 ELSE 200)
       ELSE Respond("restore_post", 404) /\ UNCHANGED posts

\* POST /posts/{post_id}/restore: route restore_post, handler restore_post
RestorePost(u, p) ==
    /\ u \in users
    /\ UNCHANGED <<users, emails, photos, cities, flights, reviews, likes, comments, now, req>>
    /\ IF p \in DOMAIN posts /\ posts[p].deleted_at # None
       THEN IF posts[p].user_id # u
            THEN Respond("restore_post", 403) /\ UNCHANGED posts
            ELSE /\ posts' = [posts EXCEPT ![p].deleted_at = None]
                 /\ Respond("restore_post", 200)
       ELSE Respond("restore_post", 404) /\ UNCHANGED posts

\* POST /posts/{post_id}/comments: create_comment_on_post, create_comment
CreateComment(u, p, content) ==
    /\ u \in users
    /\ UNCHANGED <<users, emails, photos, cities, flights, reviews, posts, likes, now, req>>
    /\ IF ~get_post_by_id(p)
       THEN Respond("create_comment", 404) /\ UNCHANGED comments
       ELSE /\ comments' = Append(comments, [user_id |-> u, post_id |-> p,
                                             content |-> content, deleted_at |-> None])
            /\ Respond("create_comment", 201)

\* PATCH /posts/{post_id}/comments/{comment_id}: route and handler update_comment
UpdateComment(u, p, k, comment_in) ==
    /\ u \in users
    /\ UNCHANGED <<users, emails, photos, cities, flights, reviews, posts, likes, now, req>>
    /\ IF ~get_comment_by_id(k)
       THEN Respond("update_comment", 404) /\ UNCHANGED comments
       ELSE IF comments[k].post_id # p
       THEN Respond("update_comment", 400) /\ UNCHANGED comments
       ELSE IF comments[k].user_id # u
       THEN Respond("update_comment", 403) /\ UNCHANGED comments
       ELSE /\ comments' = [comments EXCEPT ![k] = SetAttrs(@, comment_in)]
            /\ Respond("update_comment", 200)

\* soft_delete_comment without the comparison of user_id
DeleteComment_NoOwnerCheck(u, p, k) ==
    /\ u \in users
    /\ UNCHANGED <<users, emails, photos, cities, flights, reviews, posts, likes, now, req>>
    /\ IF ~get_comment_by_id(k)
       THEN Respond("delete_comment", 404) /\ UNCHANGED comments
       ELSE IF comments[k].post_id # p
       THEN Respond("delete_comment", 400) /\ UNCHANGED comments
       ELSE /\ comments' = [comments EXCEPT ![k].deleted_at =
                               IF @ = None THEN now ELSE @]
            /\ Respond("delete_comment", 200)

\* DELETE /posts/{post_id}/comments/{comment_id}/delete: delete_comment,
\* soft_delete_comment
DeleteComment(u, p, k) ==
    /\ u \in users
    /\ UNCHANGED <<users, emails, photos, cities, flights, reviews, posts, likes, now, req>>
    /\ IF ~get_comment_by_id(k)
       THEN Respond("delete_comment", 404) /\ UNCHANGED comments
       ELSE IF comments[k].post_id # p
       THEN Respond("delete_comment", 400) /\ UNCHANGED comments
       ELSE IF comments[k].user_id # u
       THEN Respond("delete_comment", 403) /\ UNCHANGED comments
       ELSE /\ comments' = [comments EXCEPT ![k].deleted_at =
                               IF @ = None THEN now ELSE @]
            /\ Respond("delete_comment", 200)

\* POST /posts/{post_id}/comments/{comment_id}/restore: the route reads the
\* comment with get_comment_by_id, then calls the handler restore_comment
RestoreComment(u, p, k) ==
    /\ u \in users
    /\ UNCHANGED <<users, emails, photos, cities, flights, reviews, posts, likes, now, req>>
    /\ IF ~get_comment_by_id(k)
       THEN Respond("restore_comment", 404) /\ UNCHANGED comments
       ELSE IF comments[k].post_id # p
       THEN Respond("restore_comment", 400) /\ UNCHANGED comments
       ELSE IF comments[k].deleted_at = None
       THEN Respond("restore_comment", 400) /\ UNCHANGED comments
       ELSE IF comments[k].user_id # u
       THEN Respond("restore_comment", 403) /\ UNCHANGED comments
       ELSE /\ comments' = [comments EXCEPT ![k].deleted_at = None]
            /\ Respond("restore_comment", 200)

\* the number of post_likes rows of a post
RECURSIVE SumLikes(_, _)
SumLikes(us, p) ==
    IF us = {} THEN 0
    ELSE LET u == CHOOSE x \in us : TRUE IN likes[<<u, p>>] + SumLikes(us \ {u}, p)

LikeRows(p) == SumLikes(users, p)

\* toggle_like_post counting up on both branches
toggled_like_count_NoDecrement(like_count, existing_like) == like_count + 1

\* toggle_like_post: the like_count the handler assigns to the post it holds
toggled_like_count(like_count, existing_like) ==
    IF existing_like THEN Max(0, like_count - 1) ELSE like_count + 1

\* post_likes without the composite primary key
PrimaryKeyViolation_None(key) == FALSE

\* Like.__table_args__: PrimaryKeyConstraint("user_id", "post_id") refuses
\* the INSERT of a key that has a row
PrimaryKeyViolation(key) == likes[key] > 0

\* the flush and commit of toggle_like_post for a post loaded with like_count
\* loaded_count: DELETE or INSERT of the Like row, and UPDATE of
\* posts.like_count when the assigned value differs from the loaded one
\* (the unit of work writes only changed attributes).  An IntegrityError
\* leaves the transaction uncommitted.
CommitToggle(op, u, p, loaded_count, existing_like) ==
    LET key == <<u, p>>
        new_count == toggled_like_count(loaded_count, existing_like)
        write_count == IF new_count # loaded_count
                       THEN [posts EXCEPT ![p].like_count = new_count]
                       ELSE posts
    IN  IF existing_like
        THEN /\ likes' = [likes EXCEPT ![key] = 0]
             /\ posts' = write_count
             /\ Respond(op, 200)
        ELSE IF PrimaryKeyViolation(key)
        THEN Respond(op, 500) /\ UNCHANGED <<likes, posts>>
        ELSE /\ likes' = [likes EXCEPT ![key] = @ + 1]
             /\ posts' = write_count
             /\ Respond(op, 200)

\* POST /posts/{post_id}/toggle-like served alone: toggle_post_like,
\* toggle_like_post
TogglePostLike(u, p) ==
    /\ u \in users
    /\ UNCHANGED <<users, emails, photos, cities, flights, reviews, comments, now, req>>
    /\ IF ~get_post_by_id(p)
       THEN Respond("toggle_post_like", 404) /\ UNCHANGED <<likes, posts>>
       ELSE CommitToggle("toggle_post_like", u, p, posts[p].like_count,
                         likes[<<u, p>>] > 0)

PostIds == DOMAIN posts \cup {MissingId}
CommentIds == DOMAIN comments \cup {MissingId}

\* toggles of likes, one request after another
NextLike ==
    \/ /\ Len(posts) < MaxPosts
       /\ \E u \in users, f \in DOMAIN flights : CreatePost(u, f, "a", "a")
    \/ \E u \in users, p \in PostIds : TogglePostLike(u, p)

SpecLike == Init /\ [][NextLike]_vars

\* one post and one comment, updated, deleted and restored by any user
NextOwner ==
    \/ /\ posts = << >>
       /\ \E u \in users, f \in DOMAIN flights \cup {MissingId} : CreatePost(u, f, "a", "a")
    \/ /\ comments = << >>
       /\ \E u \in users, p \in PostIds : CreateComment(u, p, "a")
    \/ \E u \in users, p \in PostIds, post_in \in PostUpdates : UpdatePost(u, p, post_in)
    \/ \E u \in users, p \in PostIds : DeletePost(u, p)
    \/ \E u \in users, p \in PostIds : RestorePost(u, p)
    \/ \E u \in users, p \in PostIds, k \in CommentIds, comment_in \in CommentUpdates :
           UpdateComment(u, p, k, comment_in)
    \/ \E u \in users, p \in PostIds, k \in CommentIds : DeleteComment(u, p, k)
    \/ \E u \in users, p \in PostIds, k \in CommentIds : RestoreComment(u, p, k)

SpecOwner == Init /\ [][NextOwner]_vars

(***************************************************************************)
(* Two requests served at the same time.  Each request has its own session:*)
(* a read sees the rows committed so far, the session keeps the rows it    *)
(* loaded, and db.commit() writes the session's changes in one transaction.*)
(***************************************************************************)
\* toggle_post_like: post_handler.get_post_by_id loads the Post row
ToggleLoad(s, u, p) ==
    /\ u \in users
    /\ req[s] = Idle
    /\ UNCHANGED <<users, emails, photos, cities, flights, reviews, posts, likes, comments, now>>
    /\ IF ~get_post_by_id(p)
       THEN Respond("toggle_post_like", 404) /\ UNCHANGED req
       ELSE /\ req' = [req EXCEPT ![s] = [pc |-> "toggle_loaded", user |-> u, post |-> p,
                                          like_count |-> posts[p].like_count]]
            /\ UNCHANGED last

\* toggle_like_post: existing_like = db.scalars(statement).first()
ToggleSelect(s) ==
    /\ req[s].pc = "toggle_loaded"
    /\ req' = [req EXCEPT ![s] = [pc |-> "toggle_selected", user |-> req[s].user,
                                  post |-> req[s].post, like_count |-> req[s].like_count,
                                  existing_like |-> likes[<<req[s].user, req[s].post>>] > 0]]
    /\ UNCHANGED <<users, emails, photos, cities, flights, reviews, posts, likes, comments,
                   now, last>>

\* toggle_like_post: db.delete / db.add, like_count assigned, db.commit()
ToggleCommit(s) ==
    /\ req[s].pc = "toggle_selected"
    /\ CommitToggle("toggle_post_like", req[s].user, req[s].post,
                    req[s].like_count, req[s].existing_like)
    /\ req' = [req EXCEPT ![s] = Idle]
    /\ UNCHANGED <<users, emails, photos, cities, flights, reviews, comments, now>>

\* create_city_review: city_handler.get_city_by_id loads the City row
ReviewLoad(s, u, c, rating) ==
    /\ u \in users
    /\ req[s] = Idle
    /\ UNCHANGED <<users, emails, photos, cities, flights, reviews, posts, likes, comments, now>>
    /\ IF ~get_city_by_id(c)
       THEN Respond("create_city_review", 404) /\ UNCHANGED req
       ELSE /\ req' = [req EXCEPT ![s] = [pc |-> "review_loaded", user |-> u, city_id |-> c,
                                          rating |-> rating, city |-> cities[c]]]
            /\ UNCHANGED last

\* add_review_to_city: the query for an existing review of (city, user)
ReviewCheck(s) ==
    /\ req[s].pc = "review_loaded"
    /\ UNCHANGED <<users, emails, photos, cities, flights, reviews, posts, likes, comments, now>>
    /\ IF ReviewsOf(req[s].city_id, req[s].user) # {}
       THEN Respond("create_city_review", 400) /\ req' = [req EXCEPT ![s] = Idle]
       ELSE req' = [req EXCEPT ![s].pc = "review_checked"] /\ UNCHANGED last

\* add_review_to_city: aggregates recomputed from the loaded city, db.commit()
ReviewCommit(s) ==
    /\ req[s].pc = "review_checked"
    /\ CommitReview("create_city_review", req[s].user, req[s].city_id, req[s].city,
                    req[s].rating, NoText)
    /\ req' = [req EXCEPT ![s] = Idle]
    /\ UNCHANGED <<users, emails, photos, flights, posts, likes, comments, now>>

AllIdle == \A s \in Slots : req[s] = Idle

LikeCountInBound(s) ==
    toggled_like_count(req[s].like_count, req[s].existing_like) <= MaxLikeCount

\* toggle-like requests of any users on one post, interleaved
NextConcLike ==
    \/ /\ posts = << >>
       /\ \E u \in users, f \in DOMAIN flights : CreatePost(u, f, "a", "a")
    \/ \E s \in Slots, u \in users, p \in PostIds : ToggleLoad(s, u, p)
    \/ \E s \in Slots : ToggleSelect(s)
    \/ \E s \in Slots : ToggleCommit(s) /\ LikeCountInBound(s)

SpecConcLike == Init /\ [][NextConcLike]_vars

\* toggle-like requests interleaved, each user with one request at a time
\* (slot s serves user s)
NextConcLikeDistinct ==
    \/ /\ posts = << >>
       /\ \E u \in users, f \in DOMAIN flights : CreatePost(u, f, "a", "a")
    \/ \E s \in Slots, p \in PostIds : ToggleLoad(s, s, p)
    \/ \E s \in Slots : ToggleSelect(s)
    \/ \E s \in Slots : ToggleCommit(s) /\ LikeCountInBound(s)

SpecConcLikeDistinct == Init /\ [][NextConcLikeDistinct]_vars

InitOneCity == InitWith(MaxUsers, 1)

\* review submissions interleaved, each user with one request at a time
NextConcReview ==
    \/ \E s \in Slots, c \in DOMAIN cities \cup {MissingId}, rating \in RatingInputs :
           ReviewLoad(s, s, c, rating)
    \/ \E s \in Slots : ReviewCheck(s)
    \/ \E s \in Slots : ReviewCommit(s)

SpecConcReview == InitOneCity /\ [][NextConcReview]_vars

\* review submissions of any users, interleaved
NextConcReviewAny ==
    \/ \E s \in Slots, u \in users, c \in DOMAIN cities \cup {MissingId},
          rating \in RatingInputs :
           ReviewLoad(s, u, c, rating)
    \/ \E s \in Slots : ReviewCheck(s)
    \/ \E s \in Slots : ReviewCommit(s)

SpecConcReviewAny == InitOneCity /\ [][NextConcReviewAny]_vars

\* review submissions of any users interleaved, and updates of reviews by
\* their authors between their steps
NextConcReviewPatch ==
    \/ \E s \in Slots, u \in users, c \in DOMAIN cities : ReviewLoad(s, u, c, MaxRating)
    \/ \E s \in Slots : ReviewCheck(s)
    \/ \E s \in Slots : Cardinality(reviews) < MaxReviews /\ ReviewCommit(s)
    \/ \E r \in reviews : PatchReview(r.user_id, r.id, LowRating, NoText)

SpecConcReviewPatch == InitOneCity /\ [][NextConcReviewPatch]_vars

(***************************************************************************)
(* Soft delete and restore of cities and flights, the reads by id and the  *)
(* paginated lists (app/routes/city.py, flight.py, post.py and their       *)
(* handlers, app/schemas/paginate.py).                                     *)
(***************************************************************************)
\* time passes between requests: datetime.utcnow() and func.now() move on
Tick ==
    /\ now < MaxClock
    /\ now' = now + 1
    /\ UNCHANGED <<users, emails, photos, cities, flights, reviews, posts, likes, comments,
                   req, last>>

\* soft_delete_row stamping the row again when it is already deleted
soft_delete_row_StampsAgain(row, utcnow) == [row EXCEPT !.deleted_at = utcnow]

\* if row.deleted_at is None: row.deleted_at = datetime.utcnow()
soft_delete_row(row, utcnow) ==
    IF row.deleted_at = None THEN [row EXCEPT !.deleted_at = utcnow] ELSE row

\* restore_row resetting the counters of the row with deleted_at
restore_row_ResetsCounters(row) ==
    IF row.deleted_at # None
    THEN [f \in DOMAIN row |->
             IF f \in {"deleted_at", "like_count", "review_count"} THEN 0 ELSE row[f]]
    ELSE row

\* if row.deleted_at is not None: row.deleted_at = None
restore_row(row) ==
    IF row.deleted_at # None THEN [row EXCEPT !.deleted_at = None] ELSE row

\* get_flight_by_id: Flight.id == flight_id and Flight.deleted_at IS NULL
get_flight_by_id(flight_id) ==
    flight_id \in DOMAIN flights /\ flights[flight_id].deleted_at = None

\* check_cities_exist: both ids are ids of City rows (deleted or not)
check_cities_exist(origin_city_id, destination_city_id) ==
    LET city_ids == {origin_city_id, destination_city_id}
        found_cities == {c \in DOMAIN cities : c \in city_ids}
    IN  Cardinality(found_cities) = Cardinality(city_ids)

\* POST /flights/: route and handler create_flight
CreateFlight(u, flight_number, origin_city_id, destination_city_id, departure) ==
    /\ u \in users
    /\ UNCHANGED <<users, emails, photos, cities, reviews, posts, likes, comments, now, req>>
    /\ IF \E f \in DOMAIN flights : flights[f].flight_number = flight_number
       THEN Respond("create_flight", 400) /\ UNCHANGED flights
       ELSE IF ~check_cities_exist(origin_city_id, destination_city_id)
       THEN Respond("create_flight", 404) /\ UNCHANGED flights
       ELSE /\ flights' = Append(flights, FlightRow(flight_number, origin_city_id,
                                                   destination_city_id, departure))
            /\ Respond("create_flight", 201)

\* DELETE /cities/{city_id}: route and handler delete_city
DeleteCity(u, city_id) ==
    /\ u \in users
    /\ UNCHANGED <<users, emails, photos, flights, reviews, posts, likes, comments, now, req>>
    /\ IF ~get_city_by_id(city_id)
       THEN Respond("delete_city", 404) /\ UNCHANGED cities
       ELSE /\ cities' = [cities EXCEPT ![city_id] = soft_delete_row(@, now)]
            /\ Respond("delete_city", 200)

\* POST /cities/{city_id}/restore: route and handler restore_city.  The
\* handler returns the row it found, restored or not; the route answers 404
\* when it returns None.
RestoreCity(u, city_id) ==
    /\ u \in users
    /\ UNCHANGED <<users, emails, photos, flights, reviews, posts, likes, comments, now, req>>
    /\ IF city_id \in DOMAIN cities
       THEN /\ cities' = [cities EXCEPT ![city_id] = restore_row(@)]
            /\ Respond("restore_city", 200)
       ELSE Respond("restore_city", 404) /\ UNCHANGED cities

\* DELETE /flights/{flight_id}: route delete_flight, handler soft_delete_flight
DeleteFlight(u, flight_id) ==
    /\ u \in users
    /\ UNCHANGED <<users, emails, photos, cities, reviews, posts, likes, comments, now, req>>
    /\ IF ~get_flight_by_id(flight_id)
       THEN Respond("delete_flight", 404) /\ UNCHANGED flights
       ELSE /\ flights' = [flights EXCEPT ![flight_id] = soft_delete_row(@, now)]
            /\ Respond("delete_flight", 200)

\* POST /flights/{flight_id}/restore: route and handler restore_flight.  The
\* handler returns None unless it restored the row.
RestoreFlight(u, flight_id) ==
    /\ u \in users
    /\ UNCHANGED <<users, emails, photos, cities, reviews, posts, likes, comments, now, req>>
    /\ IF flight_id \in DOMAIN flights /\ flights[flight_id].deleted_at # None
       THEN /\ flights' = [flights EXCEPT ![flight_id] = restore_row(@)]
            /\ Respond("restore_flight", 200)
       ELSE Respond("restore_flight", 404) /\ UNCHANGED flights

\* CityUpdate(photos=None): the request sets photos to null; a request that
\* leaves photos out has the default of the schema, the empty list
NoPhotos == <<None>>

\* a field the request body leaves out (model_dump(exclude_unset=True))
Unset == -1

\* create_city looking for the name among the active cities only
CreateCity_ChecksActiveOnly(u, name, photo_urls) ==
    /\ u \in users
    /\ UNCHANGED <<users, emails, flights, reviews, posts, likes, comments, now, req>>
    /\ IF \E c \in DOMAIN cities : cities[c].name = name /\ cities[c].deleted_at = None
       THEN Respond("create_city", 400) /\ UNCHANGED <<cities, photos>>
       ELSE /\ cities' = Append(cities, CityRow(name))
            /\ photos' = Append(photos, photo_urls)
            /\ Respond("create_city", 201)

\* POST /cities/: route and handler create_city
CreateCity(u, name, photo_urls) ==
    /\ u \in users
    /\ UNCHANGED <<users, emails, flights, reviews, posts, likes, comments, now, req>>
    /\ IF \E c \in DOMAIN cities : cities[c].name = name
       THEN Respond("create_city", 400) /\ UNCHANGED <<cities, photos>>
       ELSE /\ cities' = Append(cities, CityRow(name))
            /\ photos' = Append(photos, photo_urls)
            /\ Respond("create_city", 201)

\* PATCH /cities/{city_id}: route and handler update_city
UpdateCity(u, city_id, city_in) ==
    /\ u \in users
    /\ UNCHANGED <<users, emails, flights, reviews, posts, likes, comments, now, req>>
    /\ IF ~get_city_by_id(city_id)
       THEN Respond("update_city", 404) /\ UNCHANGED <<cities, photos>>
       ELSE IF /\ city_in.name # Unset
               /\ city_in.name # cities[city_id].name
               /\ \E c \in DOMAIN cities : cities[c].name = city_in.name
       THEN Respond("update_city", 400) /\ UNCHANGED <<cities, photos>>
       ELSE /\ cities' = [cities EXCEPT ![city_id].name =
                              IF city_in.name # Unset THEN city_in.name ELSE @]
            /\ photos' = [photos EXCEPT ![city_id] =
                              IF city_in.photos # NoPhotos THEN city_in.photos ELSE @]
            /\ Respond("update_city", 200)

\* FlightUpdate: every field optional
FlightUpdate(flight_number, origin_city_id, destination_city_id) ==
    [flight_number |-> flight_number, origin_city_id |-> origin_city_id,
     destination_city_id |-> destination_city_id]

\* PATCH /flights/{flight_id}: route and handler update_flight
UpdateFlight(u, flight_id, flight_in) ==
    /\ u \in users
    /\ UNCHANGED <<users, emails, photos, cities, reviews, posts, likes, comments, now, req>>
    /\ IF ~get_flight_by_id(flight_id)
       THEN Respond("update_flight", 404) /\ UNCHANGED flights
       ELSE IF /\ flight_in.flight_number # Unset
               /\ flight_in.flight_number # flights[flight_id].flight_number
               /\ \E f \in DOMAIN flights :
                      flights[f].flight_number = flight_in.flight_number
       THEN Respond("update_flight", 400) /\ UNCHANGED flights
       ELSE IF /\ flight_in.origin_city_id # Unset \/ flight_in.destination_city_id # Unset
               /\ ~check_cities_exist(
                      IF flight_in.origin_city_id # Unset
                      THEN flight_in.origin_city_id
                      ELSE flights[flight_id].origin_city_id,
                      IF flight_in.destination_city_id # Unset
                      THEN flight_in.destination_city_id
                      ELSE flights[flight_id].destination_city_id)
       THEN Respond("update_flight", 404) /\ UNCHANGED flights
       ELSE /\ flights' = [flights EXCEPT
                   ![flight_id].flight_number =
                       IF flight_in.flight_number # Unset
                       THEN flight_in.flight_number ELSE @,
                   ![flight_id].origin_city_id =
                       IF flight_in.origin_city_id # Unset
                       THEN flight_in.origin_city_id ELSE @,
                   ![flight_id].destination_city_id =
                       IF flight_in.destination_city_id # Unset
                       THEN flight_in.destination_city_id ELSE @]
            /\ Respond("update_flight", 200)

\* get_city_by_id without the filter on deleted_at
ReadCity_IgnoresDeletedAt(city_id) ==
    /\ Respond("read_city", IF city_id \in DOMAIN cities THEN 200 ELSE 404)
    /\ UNCHANGED <<users, emails, photos, cities, flights, reviews, posts, likes, comments,
                   now, req>>

\* GET /cities/{city_id}: read_city
ReadCity(city_id) ==
    /\ Respond("read_city", IF get_city_by_id(city_id) THEN 200 ELSE 404)
    /\ UNCHANGED <<users, emails, photos, cities, flights, reviews, posts, likes, comments,
                   now, req>>

\* GET /flights/{flight_id}: read_flight
ReadFlight(flight_id) ==
    /\ Respond("read_flight", IF get_flight_by_id(flight_id) THEN 200 ELSE 404)
    /\ UNCHANGED <<users, emails, photos, cities, flights, reviews, posts, likes, comments,
                   now, req>>

\* GET /posts/{post_id}: read_post
ReadPost(post_id) ==
    /\ Respond("read_post", IF get_post_by_id(post_id) THEN 200 ELSE 404)
    /\ UNCHANGED <<users, emails, photos, cities, flights, reviews, posts, likes, comments,
                   now, req>>

\* the ids of the rows of a table that pass deleted_at IS NULL
ActiveIds(table) == {i \in DOMAIN table : table[i].deleted_at = None}

\* ORDER BY key: SQLite sorts a query that has a LIMIT through a b-tree keyed
\* by (key, sequence number), so rows with equal keys come in the order of
\* the table scan, the order of insertion
RECURSIVE order_by(_, _)
order_by(ids, key) ==
    IF ids = {} THEN << >>
    ELSE LET first == CHOOSE i \in ids :
                          \A j \in ids : key[i] < key[j] \/ (key[i] = key[j] /\ i <= j)
         IN  <<first>> \o order_by(ids \ {first}, key)

\* .offset(offset).limit(size)
offset_limit(rows, offset, size) ==
    IF offset >= Len(rows) THEN << >>
    ELSE SubSeq(rows, offset + 1, IF offset + size < Len(rows) THEN offset + size ELSE Len(rows))

\* get_cities_paginated: the non-deleted cities by name
get_cities_paginated(page, size) ==
    LET offset == (page - 1) * size
        query == ActiveIds(cities)
    IN  [items |-> offset_limit(order_by(query, [c \in query |-> cities[c].name]), offset, size),
         total |-> Cardinality(query), page |-> page, size |-> size]

\* get_flights_paginated: the non-deleted flights by departure
get_flights_paginated(page, size) ==
    LET offset == (page - 1) * size
        base_query == ActiveIds(flights)
    IN  [items |-> offset_limit(order_by(base_query,
                                         [f \in base_query |-> flights[f].departure]),
                                offset, size),
         total |-> Cardinality(base_query), page |-> page, size |-> size]

\* get_posts_paginated: the non-deleted posts, of flight_id when it is given,
\* by created_at descending
get_posts_paginated(page, size, flight_id) ==
    LET offset == (page - 1) * size
        base_query == {p \in ActiveIds(posts) :
                          flight_id # None => posts[p].flight_id = flight_id}
    IN  [items |-> offset_limit(order_by(base_query,
                                         [p \in base_query |-> 0 - posts[p].created_at]),
                                offset, size),
         total |-> Cardinality(base_query), page |-> page, size |-> size]

\* Page.pages, Page.has_next, Page.has_previous: the computed fields of the
\* response envelope built from the dict of a paginated handler
Page(data) ==
    LET pages == IF data.total <= 0 \/ data.size <= 0 THEN 0
                 ELSE FCeil(FDiv(FromInt(data.total), data.size))
    IN  [items |-> data.items, total |-> data.total, page |-> data.page,
         size |-> data.size, pages |-> pages,
         has_next |-> data.page < pages, has_previous |-> data.page > 1]

\* the response of a list endpoint
RespondPage(op, body) == last' = [op |-> op, status |-> 200, body |-> body]

\* GET /cities/: read_cities
ReadCities(page, size) ==
    /\ RespondPage("read_cities", Page(get_cities_paginated(page, size)))
    /\ UNCHANGED <<users, emails, photos, cities, flights, reviews, posts, likes, comments,
                   now, req>>

\* GET /flights/: list_flights
ListFlights(page, size) ==
    /\ RespondPage("list_flights", Page(get_flights_paginated(page, size)))
    /\ UNCHANGED <<users, emails, photos, cities, flights, reviews, posts, likes, comments,
                   now, req>>

\* GET /posts/: list_posts calls get_posts_paginated(db=, page=, size=,
\* flight_id=, q=, author_id=), and the handler has no parameters q and
\* author_id: the call raises TypeError and the request is answered 500
ListPosts(page, size, flight_id) ==
    /\ Respond("list_posts", 500)
    /\ UNCHANGED <<users, emails, photos, cities, flights, reviews, posts, likes, comments,
                   now, req>>

Pages == 1..MaxPage
Sizes == 1..MaxSize
Departures == {1, 2}

(***************************************************************************)
(* Authentication of the protected routes (app/config/auth.py,             *)
(* app/handlers/auth.py).  A bearer token is what jwt.decode can tell of   *)
(* it: whether the signature verifies under PUBLIC_KEY, its exp and its    *)
(* sub.                                                                    *)
(***************************************************************************)
NoSub == None          \* a payload without "sub"
UnknownEmail == -2     \* an email no user has
Unauthorized == 0      \* credentials_exception / 401 of the bearer scheme

\* a request without an Authorization: Bearer header
NoToken == [present |-> FALSE, signed |-> FALSE, exp |-> 0, sub |-> NoSub]

Token(signed, exp, sub) ==
    [present |-> TRUE, signed |-> signed, exp |-> exp, sub |-> sub]

\* get_user_by_email: the first user with the email, or None
get_user_by_email(email) ==
    IF \E u \in users : emails[u] = email
    THEN CHOOSE u \in users : emails[u] = email
    ELSE Unauthorized

\* verify_token accepting an expired token
verify_token_IgnoresExp(token) ==
    IF ~token.signed \/ token.sub = NoSub THEN Unauthorized ELSE token.sub

\* verify_token: jwt.decode raises JWTError for a bad signature and for
\* exp < now; a payload without sub raises credentials_exception
verify_token(token) ==
    IF ~token.signed \/ token.exp < now \/ token.sub = NoSub
    THEN Unauthorized
    ELSE token.sub

\* ACCESS_TOKEN_EXPIRE_MINUTES and REFRESH_TOKEN_EXPIRE_MINUTES, in ticks of
\* the clock: an access token (30 minutes) lasts to the end of the tick it
\* was issued in, a refresh token (7 days) one tick longer
AccessTokenExpire == 0
RefreshTokenExpire == 1

\* get_current_active_user refusing a token that lives longer than an access
\* token issued now would
get_current_active_user_AccessLifetimeOnly(token) ==
    IF ~token.present \/ token.exp > now + AccessTokenExpire
    THEN Unauthorized
    ELSE LET email == verify_token(token)
         IN  IF email = Unauthorized THEN Unauthorized ELSE get_user_by_email(email)

\* get_current_active_user over oauth2_scheme: the user of the token, or 401
get_current_active_user(token) ==
    IF ~token.present
    THEN Unauthorized
    ELSE LET email == verify_token(token)
         IN  IF email = Unauthorized THEN Unauthorized ELSE get_user_by_email(email)

\* a route with current_user: Depends(get_current_active_user): the
\* dependency is solved before the route function is called
Protected(token, op, Handler(_)) ==
    LET current_user == get_current_active_user(token)
    IN  IF current_user = Unauthorized
        THEN /\ Respond(op, 401)
             /\ UNCHANGED <<users, emails, photos, cities, flights, reviews, posts, likes,
                            comments, now, req>>
        ELSE Handler(current_user)

\* create_access_token({"sub": email}): signed with SECRET_KEY
create_access_token(email) == Token(TRUE, now + AccessTokenExpire, email)

\* create_refresh_token({"sub": email}): signed with SECRET_KEY
create_refresh_token(email) == Token(TRUE, now + RefreshTokenExpire, email)

\* UserCreate.email: EmailStr.  Address a + MaxEmails is address a written
\* with its domain in capitals; validation puts the domain in lower case.
EmailStr(raw) == IF raw > MaxEmails THEN raw - MaxEmails ELSE raw

RespondAuth(email) ==
    last' = [op |-> "register", status |-> 201,
             token |-> [access_token |-> create_access_token(email),
                        refresh_token |-> create_refresh_token(email)]]

\* create_user: db.add(UserModel(email=user.email, ...)), db.commit()
create_user(email) ==
    LET id == Cardinality(users) + 1
    IN  /\ users' = users \cup {id}
        /\ emails' = [u \in users \cup {id} |-> IF u = id THEN email ELSE emails[u]]

\* register_new_user without the look-up of the email
Register_NoExistingCheck(raw) ==
    /\ create_user(EmailStr(raw))
    /\ RespondAuth(EmailStr(raw))
    /\ UNCHANGED <<photos, cities, flights, reviews, posts, likes, comments, now, req>>

\* POST /auth/register: register, register_new_user
Register(raw) ==
    LET email == EmailStr(raw)
    IN  /\ UNCHANGED <<photos, cities, flights, reviews, posts, likes, comments, now, req>>
        /\ IF get_user_by_email(email) # Unauthorized
           THEN Respond("register", 400) /\ UNCHANGED <<users, emails>>
           ELSE create_user(email) /\ RespondAuth(email)

(***************************************************************************)
(* The soft-delete and restore handlers called directly, with a row of the *)
(* table however it was loaded (app/handlers/city.py, flight.py, post.py,  *)
(* comment.py).  commits is the number of db.commit() calls of the handler.*)
(***************************************************************************)
Return(op, commits) == last' = [op |-> op, status |-> 0, commits |-> commits]
Raise(op, status) == last' = [op |-> op, status |-> status, commits |-> 0]

\* the commits of a soft-delete handler for a row
DeleteCommits(row) == IF row.deleted_at = None THEN 1 ELSE 0

\* the commits of a restore handler for a row
RestoreCommits(row) == IF row.deleted_at # None THEN 1 ELSE 0

\* handler delete_city(db, db_city)
delete_city(c) ==
    /\ c \in DOMAIN cities
    /\ cities' = [cities EXCEPT ![c] = soft_delete_row(@, now)]
    /\ Return("delete_city", DeleteCommits(cities[c]))
    /\ UNCHANGED <<users, emails, photos, flights, reviews, posts, likes, comments, now, req>>

\* handler restore_city(db, city_id)
restore_city(city_id) ==
    /\ UNCHANGED <<users, emails, photos, flights, reviews, posts, likes, comments, now, req>>
    /\ IF city_id \in DOMAIN cities
       THEN /\ cities' = [cities EXCEPT ![city_id] = restore_row(@)]
            /\ Return("restore_city", RestoreCommits(cities[city_id]))
       ELSE Return("restore_city", 0) /\ UNCHANGED cities

\* handler soft_delete_flight(db, db_flight)
soft_delete_flight(f) ==
    /\ f \in DOMAIN flights
    /\ flights' = [flights EXCEPT ![f] = soft_delete_row(@, now)]
    /\ Return("soft_delete_flight", DeleteCommits(flights[f]))
    /\ UNCHANGED <<users, emails, photos, cities, reviews, posts, likes, comments, now, req>>

\* handler restore_flight(db, flight_id)
restore_flight(flight_id) ==
    /\ UNCHANGED <<users, emails, photos, cities, reviews, posts, likes, comments, now, req>>
    /\ IF flight_id \in DOMAIN flights
       THEN /\ flights' = [flights EXCEPT ![flight_id] = restore_row(@)]
            /\ Return("restore_flight", RestoreCommits(flights[flight_id]))
       ELSE Return("restore_flight", 0) /\ UNCHANGED flights

\* handler soft_delete_post(db, db_post=, user_id=)
soft_delete_post(u, p) ==
    /\ u \in users
    /\ p \in DOMAIN posts
    /\ UNCHANGED <<users, emails, photos, cities, flights, reviews, likes, comments, now, req>>
    /\ IF posts[p].user_id # u
       THEN Raise("soft_delete_post", 403) /\ UNCHANGED posts
       ELSE /\ posts' = [posts EXCEPT ![p] = soft_delete_row(@, now)]
            /\ Return("soft_delete_post", DeleteCommits(posts[p]))

\* handler restore_post(db, post_id=, user_id=)
restore_post(u, post_id) ==
    /\ u \in users
    /\ UNCHANGED <<users, emails, photos, cities, flights, reviews, likes, comments, now, req>>
    /\ IF post_id \in DOMAIN posts /\ posts[post_id].deleted_at # None
       THEN IF posts[post_id].user_id # u
            THEN Raise("restore_post", 403) /\ UNCHANGED posts
            ELSE /\ posts' = [posts EXCEPT ![post_id] = restore_row(@)]
                 /\ Return("restore_post", 1)
       ELSE Return("restore_post", 0) /\ UNCHANGED posts

\* handler soft_delete_comment(db, db_comment=, user_id=)
soft_delete_comment(u, k) ==
    /\ u \in users
    /\ k \in DOMAIN comments
    /\ UNCHANGED <<users, emails, photos, cities, flights, reviews, posts, likes, now, req>>
    /\ IF comments[k].user_id # u
       THEN Raise("soft_delete_comment", 403) /\ UNCHANGED comments
       ELSE /\ comments' = [comments EXCEPT ![k] = soft_delete_row(@, now)]
            /\ Return("soft_delete_comment", DeleteCommits(comments[k]))

\* handler restore_comment(db, db_comment=, user_id=)
restore_comment(u, k) ==
    /\ u \in users
    /\ k \in DOMAIN comments
    /\ UNCHANGED <<users, emails, photos, cities, flights, reviews, posts, likes, now, req>>
    /\ IF comments[k].user_id # u
       THEN Raise("restore_comment", 403) /\ UNCHANGED comments
       ELSE /\ comments' = [comments EXCEPT ![k] = restore_row(@)]
            /\ Return("restore_comment", RestoreCommits(comments[k]))

\* the tables are studied one at a time: the actions on one table are taken
\* while the other tables hold what Init put there, all of it active
CitiesAsCreated == reviews = {} /\ \A c \in DOMAIN cities : cities[c].deleted_at = None
FlightsAsCreated == Len(flights) = 1 /\ flights[1].deleted_at = None
PostsAsCreated == posts = << >> /\ comments = << >>

FlightIds == DOMAIN flights \cup {MissingId}
CityIds == DOMAIN cities \cup {MissingId}

\* create, soft delete and restore through the routes by one user, the reads
\* by id and the lists, one request after another
NextRead ==
    \/ /\ FlightsAsCreated /\ PostsAsCreated
       /\ \/ \E c \in CityIds : DeleteCity(1, c)
          \/ \E c \in CityIds : RestoreCity(1, c)
    \/ /\ CitiesAsCreated /\ PostsAsCreated
       /\ \/ /\ Len(flights) < MaxFlights
             /\ \E n \in {1, Len(flights) + 1}, o \in CityIds, d \in Departures :
                    CreateFlight(1, n, o, 1, d)
          \/ \E f \in FlightIds : DeleteFlight(1, f)
          \/ \E f \in FlightIds : RestoreFlight(1, f)
    \/ /\ CitiesAsCreated /\ FlightsAsCreated
       /\ \/ /\ Len(posts) + Len(comments) < MaxPosts
             /\ \/ \E f \in FlightIds : CreatePost(1, f, "a", "a")
                \/ \E p \in PostIds : CreateComment(1, p, "a")
          \/ \E p \in PostIds : DeletePost(1, p)
          \/ \E p \in PostIds : RestorePost(1, p)
          \/ \E p \in PostIds, k \in CommentIds : DeleteComment(1, p, k)
    \/ \E c \in CityIds : ReadCity(c)
    \/ \E f \in FlightIds : ReadFlight(f)
    \/ \E p \in PostIds : ReadPost(p)
    \/ \E page \in Pages, size \in Sizes : ReadCities(page, size)
    \/ \E page \in Pages, size \in Sizes : ListFlights(page, size)
    \/ \E page \in Pages, size \in Sizes : ListPosts(page, size, None)

SpecRead == Init /\ [][NextRead]_vars

\* the handlers called with any row of their table, among the requests that
\* give the rows their reviews, likes and comments
NextHandlers ==
    \/ Tick
    \/ /\ FlightsAsCreated /\ PostsAsCreated
       /\ \/ /\ Cardinality(reviews) < MaxReviews
             /\ \E u \in users, c \in DOMAIN cities, rating \in RatingInputs :
                    CreateCityReview(u, c, rating, NoText)
          \/ \E c \in DOMAIN cities : delete_city(c)
          \/ \E c \in CityIds : restore_city(c)
    \/ /\ reviews = {} /\ PostsAsCreated
       /\ \/ \E f \in DOMAIN flights : soft_delete_flight(f)
          \/ \E f \in FlightIds : restore_flight(f)
    \/ /\ reviews = {} /\ FlightsAsCreated
       /\ \/ /\ posts = << >>
             /\ \E u \in users : CreatePost(u, 1, "a", "a")
          \/ \E u \in users, p \in DOMAIN posts : TogglePostLike(u, p)
          \/ /\ comments = << >>
             /\ \E u \in users, p \in DOMAIN posts : CreateComment(u, p, "a")
          \/ \E u \in users, p \in DOMAIN posts : soft_delete_post(u, p)
          \/ \E u \in users, p \in PostIds : restore_post(u, p)
          \/ \E u \in users, k \in DOMAIN comments : soft_delete_comment(u, k)
          \/ \E u \in users, k \in DOMAIN comments : restore_comment(u, k)

SpecHandlers == InitOneCity /\ [][NextHandlers]_vars

\* the tokens a request may carry: none, a forged one, an expired one, one
\* without subject, one of an unknown subject, and a good one of each user
\* (the email of user u is u)
Tokens ==
    {NoToken, Token(FALSE, MaxClock, 1), Token(TRUE, 0, 1),
     Token(TRUE, MaxClock, NoSub), Token(TRUE, MaxClock, UnknownEmail)}
        \cup {Token(TRUE, MaxClock, u) : u \in 1..MaxUsers}

CitiesUntouched ==
    /\ reviews = {}
    /\ cities = [c \in {1} |-> CityRow(1)]
    /\ photos = [c \in {1} |-> <<1>>]

\* the protected routes of app/routes/city.py, asked for city 1
CityRequests(token) ==
    \/ /\ Len(cities) < NumCities
       /\ Protected(token, "create_city",
              LAMBDA u : \E name \in {1, Len(cities) + 1} : CreateCity(u, name, << >>))
    \/ Protected(token, "update_city",
           LAMBDA u : UpdateCity(u, 1, [name |-> Unset, photos |-> << >>]))
    \/ Protected(token, "delete_city", LAMBDA u : DeleteCity(u, 1))
    \/ Protected(token, "restore_city", LAMBDA u : RestoreCity(u, 1))
    \/ /\ Cardinality(reviews) < MaxReviews
       /\ Protected(token, "create_city_review",
              LAMBDA u : CreateCityReview(u, 1, MaxRating, NoText))
    \/ Protected(token, "patch_review",
           LAMBDA u : \E r \in ReviewIds : PatchReview(u, r, LowRating, NoText))

\* the protected routes of app/routes/flight.py, asked for flight 1
FlightRequests(token) ==
    \/ /\ Len(flights) < MaxFlights
       /\ Protected(token, "create_flight",
              LAMBDA u : CreateFlight(u, Len(flights) + 1, 1, 1, 1))
    \/ Protected(token, "update_flight",
           LAMBDA u : UpdateFlight(u, 1, FlightUpdate(Unset, 1, Unset)))
    \/ Protected(token, "delete_flight", LAMBDA u : DeleteFlight(u, 1))
    \/ Protected(token, "restore_flight", LAMBDA u : RestoreFlight(u, 1))

\* the protected routes of app/routes/post.py, asked for post 1 and comment 1
PostRequests(token) ==
    \/ /\ posts = << >>
       /\ Protected(token, "create_post", LAMBDA u : CreatePost(u, 1, "a", "a"))
    \/ Protected(token, "update_post", LAMBDA u : UpdatePost(u, 1, [title |-> "b"]))
    \/ Protected(token, "delete_post", LAMBDA u : DeletePost(u, 1))
    \/ Protected(token, "restore_post", LAMBDA u : RestorePost(u, 1))
    \/ /\ comments = << >>
       /\ Protected(token, "create_comment", LAMBDA u : CreateComment(u, 1, "a"))
    \/ Protected(token, "update_comment",
           LAMBDA u : UpdateComment(u, 1, 1, [content |-> "b"]))
    \/ Protected(token, "delete_comment", LAMBDA u : DeleteComment(u, 1, 1))
    \/ Protected(token, "restore_comment", LAMBDA u : RestoreComment(u, 1, 1))
    \/ Protected(token, "toggle_post_like", LAMBDA u : TogglePostLike(u, 1))

\* a request to a protected route with the token
ProtectedRequest(token) ==
    \/ FlightsAsCreated /\ PostsAsCreated /\ CityRequests(token)
    \/ CitiesUntouched /\ PostsAsCreated /\ FlightRequests(token)
    \/ CitiesUntouched /\ FlightsAsCreated /\ PostRequests(token)

\* requests to the protected routes with any token, one after another
NextAuth == \E token \in Tokens : ProtectedRequest(token)

SpecAuth == InitOneCity /\ [][NextAuth]_vars

RawEmails == 1..(2 * MaxEmails)

InitRegister == InitWith(0, 1)

\* registrations, one after another
NextRegister ==
    \/ Tick
    \/ \E raw \in RawEmails : Register(raw)

SpecRegister == InitRegister /\ [][NextRegister]_vars

(***************************************************************************)
(* PATCH /cities/{id} (app/routes/city.py).  The router holds two routes   *)
(* of this method and path, update_city ("/{city_id}") and, declared after *)
(* it, patch_review ("/{review_id}"): a request goes to the first route    *)
(* that matches.  The id of the path is a uuid, of a city or of a review.  *)
(***************************************************************************)
CityPath(c) == [kind |-> "city", id |-> c]
ReviewPath(r) == [kind |-> "review", id |-> r]

\* get_city_by_id(city_id) for the id of the path: no city has the uuid of a
\* review
CityOfPath(path) == IF path.kind = "city" THEN path.id ELSE MissingId

\* the body of the request parsed as a CityUpdate: fields it does not know
\* are ignored, name left out is unset, photos left out is the default list
CityUpdateOf(body) ==
    [name |-> IF "name" \in DOMAIN body THEN body.name ELSE Unset,
     photos |-> IF "photos" \in DOMAIN body THEN body.photos ELSE << >>]

\* PATCH /cities/{id}: the first matching route, update_city
PatchCities(u, path, body) == UpdateCity(u, CityOfPath(path), CityUpdateOf(body))

\* the bodies of PATCH /cities/{id}: ReviewUpdates and a CityUpdate
ReviewBodies == {[rating |-> LowRating], [rating |-> MaxRating]}
CityBodies == {[name |-> 1]}

\* reviews submitted and PATCH /cities/{id} requests, one after another
NextPatch ==
    \/ \E u \in users, c \in DOMAIN cities, rating \in RatingInputs :
           /\ Cardinality(reviews) < MaxReviews \/ ReviewsOf(c, u) # {}
           /\ CreateCityReview(u, c, rating, NoText)
    \/ \E u \in users, r \in ReviewIds, body \in ReviewBodies :
           PatchCities(u, ReviewPath(r), body)
    \/ \E u \in users, c \in DOMAIN cities, body \in ReviewBodies :
           PatchCities(u, CityPath(c), body)
    \/ \E u \in users, c \in DOMAIN cities, body \in CityBodies :
           PatchCities(u, CityPath(c), body)

SpecPatch == Init /\ [][NextPatch]_vars

\* cities soft-deleted and restored, flights created and re-pointed, one
\* request after another
NextFlightCity ==
    \/ \E c \in DOMAIN cities : DeleteCity(1, c)
    \/ \E c \in DOMAIN cities : RestoreCity(1, c)
    \/ /\ Len(flights) < MaxFlights
       /\ \E o \in CityIds, d \in CityIds : CreateFlight(1, Len(flights) + 1, o, d, 1)
    \/ \E f \in DOMAIN flights, o \in CityIds \cup {Unset}, d \in CityIds \cup {Unset} :
           UpdateFlight(1, f, FlightUpdate(Unset, o, d))

SpecFlightCity == Init /\ [][NextFlightCity]_vars

\* parents soft-deleted and restored, and child rows asked for under them:
\* posts of a flight, a comment and likes of a post, reviews of a city
NextChild ==
    \/ /\ reviews = {} /\ CitiesAsCreated
       /\ \/ \E f \in DOMAIN flights : DeleteFlight(1, f)
          \/ \E f \in DOMAIN flights : RestoreFlight(1, f)
          \/ /\ posts = << >>
             /\ \E u \in users, f \in FlightIds : CreatePost(u, f, "a", "a")
          \/ \E u \in users, p \in DOMAIN posts : DeletePost(u, p)
          \/ \E u \in users, p \in DOMAIN posts : RestorePost(u, p)
          \/ /\ comments = << >>
             /\ \E u \in users, p \in PostIds : CreateComment(u, p, "a")
          \/ \E u \in users, p \in PostIds : TogglePostLike(u, p)
    \/ /\ FlightsAsCreated /\ PostsAsCreated
       /\ \/ \E c \in DOMAIN cities : DeleteCity(1, c)
          \/ \E c \in DOMAIN cities : RestoreCity(1, c)
          \/ \E u \in users, c \in CityIds, rating \in RatingInputs :
                 /\ Cardinality(reviews) < MaxReviews \/ ReviewsOf(c, u) # {}
                 /\ CreateCityReview(u, c, rating, NoText)

SpecChild == InitOneCity /\ [][NextChild]_vars

\* bodies of PATCH /cities/{city_id}: with a name only, with photos only
NameBodies == {[name |-> n] : n \in 1..(NumCities + 1)}
PhotoBodies == {[photos |-> << >>], [photos |-> <<7>>], [photos |-> NoPhotos]}

\* the values a PATCH of a flight may give for a field, or leave it out
FlightNumbers == {Unset} \cup 1..MaxFlights
CityRefs == {Unset} \cup DOMAIN cities

\* partial updates of cities, flights, a post and a comment, one request
\* after another
NextUpdate ==
    \/ /\ FlightsAsCreated /\ PostsAsCreated
       /\ \/ \E c \in CityIds, body \in NameBodies : PatchCities(1, CityPath(c), body)
          \/ \E c \in CityIds, body \in PhotoBodies : PatchCities(1, CityPath(c), body)
    \/ /\ photos = [c \in DOMAIN cities |-> <<c>>] /\ CitiesAsCreated /\ PostsAsCreated
       /\ \/ /\ Len(flights) < MaxFlights
             /\ CreateFlight(1, Len(flights) + 1, 1, 1, 1)
          \/ \E f \in FlightIds, n \in FlightNumbers, o \in CityRefs, d \in CityRefs :
                 UpdateFlight(1, f, FlightUpdate(n, o, d))
    \/ /\ photos = [c \in DOMAIN cities |-> <<c>>] /\ CitiesAsCreated /\ FlightsAsCreated
       /\ \/ /\ posts = << >>
             /\ CreatePost(1, 1, "a", "a")
          \/ \E p \in PostIds, post_in \in PostUpdates : UpdatePost(1, p, post_in)
          \/ /\ comments = << >>
             /\ \E p \in PostIds : CreateComment(1, p, "a")
          \/ \E p \in PostIds, k \in CommentIds, comment_in \in CommentUpdates :
                 UpdateComment(1, p, k, comment_in)

SpecUpdate == Init /\ [][NextUpdate]_vars

\* no user has registered since the start
UsersAsCreated == users = 1..MaxUsers

\* the tables of cities as at the start
CitiesAtStart ==
    /\ CitiesAsCreated
    /\ Len(cities) = NumCities
    /\ \A c \in DOMAIN cities : cities[c].name = NumCities + 1 - c /\ photos[c] = <<c>>

\* the requests that can end in an HTTPException of a handler or route:
\* duplicates, missing rows, rows of another user
NextErrors ==
    \/ /\ UsersAsCreated /\ FlightsAsCreated /\ PostsAsCreated /\ reviews = {}
       /\ \/ /\ Len(cities) <= NumCities
             /\ \E name \in 1..(NumCities + 1) : CreateCity(1, name, << >>)
          \/ \E c \in CityIds, body \in NameBodies : PatchCities(1, CityPath(c), body)
    \/ /\ UsersAsCreated /\ FlightsAsCreated /\ PostsAsCreated
       /\ Len(cities) = NumCities
       /\ \A c \in DOMAIN cities : cities[c].name = NumCities + 1 - c /\ photos[c] = <<c>>
       /\ \/ DeleteCity(1, 1)
          \/ \E u \in users, c \in CityIds :
                 /\ Cardinality(reviews) < MaxReviews \/ ReviewsOf(c, u) # {}
                 /\ CreateCityReview(u, c, MaxRating, NoText)
          \/ \E u \in users, r \in ReviewIds : PatchReview(u, r, LowRating, NoText)
    \/ /\ UsersAsCreated /\ CitiesAtStart /\ PostsAsCreated
       /\ \/ /\ Len(flights) < MaxFlights
             /\ \E n \in 1..MaxFlights, o \in CityIds : CreateFlight(1, n, o, 1, 1)
          \/ \E f \in FlightIds, n \in FlightNumbers, o \in CityIds \cup {Unset} :
                 UpdateFlight(1, f, FlightUpdate(n, o, Unset))
    \/ /\ UsersAsCreated /\ CitiesAtStart /\ FlightsAsCreated
       /\ \/ /\ posts = << >>
             /\ \E u \in users, f \in FlightIds : CreatePost(u, f, "a", "a")
          \/ \E u \in users, p \in PostIds : UpdatePost(u, p, [title |-> "b"])
          \/ \E u \in users, p \in PostIds : DeletePost(u, p)
          \/ \E u \in users, p \in PostIds : RestorePost(u, p)
          \/ /\ comments = << >>
             /\ \E u \in users, p \in PostIds : CreateComment(u, p, "a")
          \/ \E u \in users, p \in PostIds, k \in CommentIds :
                 UpdateComment(u, p, k, [content |-> "b"])
          \/ \E u \in users, p \in PostIds, k \in CommentIds : DeleteComment(u, p, k)
    \/ /\ CitiesAtStart /\ FlightsAsCreated /\ PostsAsCreated
       /\ \E raw \in RawEmails : Register(raw)

SpecErrors == Init /\ [][NextErrors]_vars

\* the table of flights as at the start
FlightsAtStart == FlightsAsCreated /\ flights[1].flight_number = 1

\* the names and flight numbers requests give: those of the rows at the
\* start and one more
CityNames == 1..(NumCities + 1)
NewFlightNumbers == 1..(MaxFlights + 1)

\* create, rename, soft delete and restore of cities and of flights, one
\* request after another
NextUnique ==
    \/ /\ FlightsAtStart /\ reviews = {}
       /\ \/ /\ Len(cities) <= NumCities
             /\ \E name \in CityNames : CreateCity(1, name, << >>)
          \/ \E c \in CityIds, name \in CityNames :
                 UpdateCity(1, c, [name |-> name, photos |-> NoPhotos])
          \/ \E c \in CityIds : DeleteCity(1, c)
          \/ \E c \in CityIds : RestoreCity(1, c)
    \/ /\ CitiesAtStart
       /\ \/ /\ Len(flights) < MaxFlights
             /\ \E n \in NewFlightNumbers : CreateFlight(1, n, 1, 1, 1)
          \/ \E f \in FlightIds, n \in NewFlightNumbers :
                 UpdateFlight(1, f, FlightUpdate(n, Unset, Unset))
          \/ \E f \in FlightIds : DeleteFlight(1, f)
          \/ \E f \in FlightIds : RestoreFlight(1, f)

SpecUnique == Init /\ [][NextUnique]_vars

\* POST /auth/login: login, login_user; authenticate_user raises 401 for an
\* unknown email or a wrong password
Login(email, password_ok) ==
    /\ UNCHANGED <<users, emails, photos, cities, flights, reviews, posts, likes, comments,
                   now, req>>
    /\ IF get_user_by_email(email) = Unauthorized \/ ~password_ok
       THEN Respond("login", 401)
       ELSE last' = [op |-> "login", status |-> 200,
                     token |-> [access_token |-> create_access_token(email),
                                refresh_token |-> create_refresh_token(email)]]

\* the emails a login gives: those of the users at the start and one no user has
LoginEmails == 1..(MaxUsers + 1)

\* the response in hand holds the tokens of a login
HoldsTokens == "token" \in DOMAIN last

\* a request to POST /posts/{post_id}/toggle-like with the bearer token: the
\* dependency get_current_active_user is solved before the route function
\* is called
BearerRequest(s, token) ==
    /\ req[s] = Idle
    /\ UNCHANGED <<users, emails, photos, cities, flights, reviews, posts, likes, comments, now>>
    /\ LET current_user == get_current_active_user(token)
       IN  IF current_user = Unauthorized
           THEN Respond("toggle_post_like", 401) /\ UNCHANGED req
           ELSE /\ req' = [req EXCEPT ![s] = [pc |-> "authenticated", token |-> token,
                                              current_user |-> current_user]]
                /\ UNCHANGED last

\* the route function toggle_post_like called with current_user
BearerRoute(s, p) ==
    /\ req[s].pc = "authenticated"
    /\ req' = [req EXCEPT ![s] = Idle]
    /\ UNCHANGED <<users, emails, photos, cities, flights, reviews, comments, now>>
    /\ IF ~get_post_by_id(p)
       THEN Respond("toggle_post_like", 404) /\ UNCHANGED <<likes, posts>>
       ELSE CommitToggle("toggle_post_like", req[s].current_user, p, posts[p].like_count,
                         likes[<<req[s].current_user, p>>] > 0)

\* logins, and requests that carry as bearer token the access token or the
\* refresh token of the login response in hand, while the clock advances
NextBearer ==
    \/ Tick
    \/ /\ posts = << >>
       /\ CreatePost(1, 1, "a", "a")
    \/ \E email \in LoginEmails, password_ok \in BOOLEAN : Login(email, password_ok)
    \/ \E s \in Slots : HoldsTokens /\ BearerRequest(s, last.token.access_token)
    \/ \E s \in Slots : HoldsTokens /\ BearerRequest(s, last.token.refresh_token)
    \/ \E s \in Slots, p \in PostIds : BearerRoute(s, p)

SpecBearer == InitOneCity /\ [][NextBearer]_vars

(***************************************************************************)
(* The session of a request (app/utils/db.py).  get_db is a generator:     *)
(* db = SessionLocal(); try: yield db; finally: db.close().  A request in  *)
(* slot s has its session open from GetDb(s, ...) until SessionClose(s).   *)
(***************************************************************************)
\* the routes asked for where the sessions are followed
SessionOps == {"read_city", "delete_city", "restore_city", "list_posts"}

\* db = SessionLocal(); yield db: the route function is about to run
GetDb(s, op, city_id) ==
    /\ req[s] = Idle
    /\ req' = [req EXCEPT ![s] = [pc |-> "yielded", op |-> op, city_id |-> city_id]]
    /\ UNCHANGED <<users, emails, photos, cities, flights, reviews, posts, likes, comments,
                   now, last>>

\* the route function runs with the session: it returns, raises an
\* HTTPException (404) or raises another error (the TypeError of list_posts)
SessionRoute(s) ==
    /\ req[s].pc = "yielded"
    /\ UNCHANGED <<users, emails, photos, flights, reviews, posts, likes, comments, now>>
    /\ LET op == req[s].op
           c == req[s].city_id
       IN  IF op = "list_posts"
           THEN /\ req' = [req EXCEPT ![s].pc = "raised_error"]
                /\ Respond(op, 500)
                /\ UNCHANGED cities
           ELSE IF op = "restore_city"
           THEN IF c \in DOMAIN cities
                THEN /\ cities' = [cities EXCEPT ![c] = restore_row(@)]
                     /\ req' = [req EXCEPT ![s].pc = "returned"]
                     /\ Respond(op, 200)
                ELSE /\ req' = [req EXCEPT ![s].pc = "raised_http"]
                     /\ Respond(op, 404)
                     /\ UNCHANGED cities
           ELSE IF ~get_city_by_id(c)
           THEN /\ req' = [req EXCEPT ![s].pc = "raised_http"]
                /\ Respond(op, 404)
                /\ UNCHANGED cities
           ELSE /\ req' = [req EXCEPT ![s].pc = "returned"]
                /\ Respond(op, 200)
                /\ cities' = IF op = "delete_city"
                             THEN [cities EXCEPT ![c] = soft_delete_row(@, now)]
                             ELSE cities

\* get_db closing the session only when the route function returns
SessionClose_OnlyOnReturn(s) ==
    /\ req[s].pc = "returned"
    /\ req' = [req EXCEPT ![s] = Idle]
    /\ UNCHANGED <<users, emails, photos, cities, flights, reviews, posts, likes, comments,
                   now, last>>

\* finally: db.close(), after the route function returned or raised
SessionClose(s) ==
    /\ req[s].pc \in {"returned", "raised_http", "raised_error"}
    /\ req' = [req EXCEPT ![s] = Idle]
    /\ UNCHANGED <<users, emails, photos, cities, flights, reviews, posts, likes, comments,
                   now, last>>

\* requests in the slots of the server, interleaved
NextSession ==
    \/ \E s \in Slots, op \in SessionOps, c \in {1, MissingId} : GetDb(s, op, c)
    \/ \E s \in Slots : SessionRoute(s)
    \/ \E s \in Slots : SessionClose(s)

\* the server runs every request it has accepted to its end
FairSession == \A s \in Slots : WF_vars(SessionRoute(s)) /\ WF_vars(SessionClose(s))

SpecSession == InitOneCity /\ [][NextSession]_vars /\ FairSession

\* the mean sum/n as Python computes it: the float nearest to the exact mean
Mean(rs) == FDiv(FromInt(SumRatings(rs)), Cardinality(rs))

\* C1: after N successful review submissions with ratings r1..rN, made one
\* after another by distinct users, the city's review_count is N and its
\* average_rating is the mean of r1..rN; a new city has review_count 0.
C1_MeanAfterSubmissions ==
    \A c \in DOMAIN cities :
        LET rows == CityReviews(c) IN
        /\ rows = {} => cities[c].review_count = 0
        /\ rows # {} => /\ cities[c].review_count = Cardinality(rows)
                        /\ cities[c].average_rating = Mean(rows)

\* C2: after any sequential mix of add_review_to_city and update_review, each
\* city's review_count is the number of its Review rows and its
\* average_rating times review_count is the sum of their current ratings,
\* that is, average_rating is the float of sum / review_count.
C2_AggregatesMatchRows ==
    \A c \in DOMAIN cities :
        /\ cities[c].review_count = Cardinality(CityReviews(c))
        /\ cities[c].review_count > 0 =>
               cities[c].average_rating =
                   FDiv(FromInt(SumRatings(CityReviews(c))), cities[c].review_count)

\* C3: when a Review row of (user, city) exists, add_review_to_city answers
\* 400, inserts no Review row and leaves the city's aggregates unchanged.
C3_SecondReviewRejected ==
    [][\A u \in users, c \in DOMAIN cities, rating \in RatingInputs :
          (ReviewsOf(c, u) # {} /\ CreateCityReview(u, c, rating, NoText))
              => (last'.status = 400 /\ reviews' = reviews /\ cities' = cities)]_vars

C3_Witness ==
    /\ last = [op |-> "create_city_review", status |-> 400]
    /\ \E r \in reviews : cities[r.city_id].review_count = 1


\* C4: in every state reached by toggle_like_post calls made one after
\* another, each post's like_count is the number of its Like rows and is not
\* negative.
C4_LikeCountIsRowCount ==
    \A p \in DOMAIN posts :
        posts[p].like_count = LikeRows(p) /\ posts[p].like_count >= 0

C4_Witness ==
    /\ last = [op |-> "toggle_post_like", status |-> 200]
    /\ \E p \in DOMAIN posts : posts[p].like_count = 2
    /\ \E p \in DOMAIN posts, u \in users : LikeRows(p) = 0

\* C10: update_post, soft_delete_post, update_comment and soft_delete_comment
\* called for a row of another user answer 403 and leave the row unchanged.
C10_OnlyAuthorMutates ==
    [][\A u \in users :
          /\ \A p \in DOMAIN posts :
                (/\ get_post_by_id(p)
                 /\ posts[p].user_id # u
                 /\ \/ \E post_in \in PostUpdates : UpdatePost(u, p, post_in)
                    \/ DeletePost(u, p))
                => (last'.status = 403 /\ posts' = posts)
          /\ \A k \in DOMAIN comments :
                (/\ get_comment_by_id(k)
                 /\ comments[k].user_id # u
                 /\ \/ \E comment_in \in CommentUpdates :
                          UpdateComment(u, comments[k].post_id, k, comment_in)
                    \/ DeleteComment(u, comments[k].post_id, k))
                => (last'.status = 403 /\ comments' = comments)]_vars

C10_Witness ==
    /\ last = [op |-> "delete_comment", status |-> 403]
    /\ \E k \in DOMAIN comments, p \in DOMAIN posts :
          /\ comments[k].deleted_at = None
          /\ posts[p].deleted_at = None
          /\ posts[p].title = "b"


\* the like_count and the number of rows of key <<u, p>> after user u
\* toggles the like of post p, from like_count lc and n rows
ToggleOnce(lc, n) ==
    [like_count |-> toggled_like_count(lc, n > 0),
     rows |-> IF n > 0 THEN 0 ELSE n + 1]

\* C5: toggling a like twice on the same post by the same user returns
\* like_count and the Like rows to their values before, whether the user had
\* liked the post or not.
C5_ToggleTwiceRestores ==
    \A u \in users, p \in DOMAIN posts :
        get_post_by_id(p) =>
            LET once == ToggleOnce(posts[p].like_count, likes[<<u, p>>])
                twice == ToggleOnce(once.like_count, once.rows)
            IN  /\ twice.like_count = posts[p].like_count
                /\ twice.rows = likes[<<u, p>>]

\* C6: after two interleaved toggle-like requests of different users on the
\* same post have committed, the post's like_count is the number of its Like
\* rows.
C6_InterleavedTogglesConsistent ==
    AllIdle => \A p \in DOMAIN posts : posts[p].like_count = LikeRows(p)

\* C7: after two interleaved review submissions of different users for the
\* same city have committed, the city's review_count is the number of its
\* Review rows and its average_rating is the mean of their ratings.
C7_InterleavedReviewsConsistent ==
    AllIdle =>
        \A c \in DOMAIN cities :
            LET rows == CityReviews(c) IN
            /\ cities[c].review_count = Cardinality(rows)
            /\ rows # {} => cities[c].average_rating = Mean(rows)

\* C8: in every reachable state there is at most one Review row per
\* (user, city), also after an interleaved double submission by one user.
C8_OneReviewPerUserAndCity ==
    \A u \in users, c \in DOMAIN cities : Cardinality(ReviewsOf(c, u)) <= 1

\* C9: in every reachable state there is at most one Like row per
\* (user, post); the second of two concurrent inserts of a key fails.
C9_OneLikePerUserAndPost ==
    \A key \in DOMAIN likes : likes[key] <= 1

C9_Witness ==
    /\ last = [op |-> "toggle_post_like", status |-> 500]
    /\ \E key \in DOMAIN likes : likes[key] = 1

\* C11: a restore request for a soft-deleted post or comment by a user who is
\* not its author is answered 403 and leaves the entity deleted; a post or
\* comment becomes active again only through a request of its author.
C11_RestoreGatedToAuthor ==
    [][/\ \A u \in users, p \in DOMAIN posts :
             (posts[p].deleted_at # None /\ posts[p].user_id # u /\ RestorePost(u, p))
                 => (last'.status = 403 /\ posts' = posts)
       /\ \A u \in users, k \in DOMAIN comments :
             (/\ comments[k].deleted_at # None
              /\ comments[k].user_id # u
              /\ RestoreComment(u, comments[k].post_id, k))
                 => (last'.status = 403 /\ comments' = comments)
       /\ \A p \in DOMAIN posts :
             (posts[p].deleted_at # None /\ posts'[p].deleted_at = None)
                 => RestorePost(posts[p].user_id, p)
       /\ \A k \in DOMAIN comments :
             (comments[k].deleted_at # None /\ comments'[k].deleted_at = None)
                 => RestoreComment(comments[k].user_id, comments[k].post_id, k)]_vars

\* C12: update_review called for an existing review by a user who is not its
\* author answers 403 and changes neither the review nor the city's aggregates.
C12_ReviewOfOtherUserForbidden ==
    [][\A u \in users, r \in reviews, rating \in RatingInputs \cup {None} :
          (r.user_id # u /\ PatchReview(u, r.id, rating, NoText))
              => (last'.status = 403 /\ reviews' = reviews /\ cities' = cities)]_vars

\* C14: the restore endpoint, called by the author for a soft-deleted comment
\* of the post, succeeds and clears deleted_at.
C14_AuthorRestoresComment ==
    [][\A k \in DOMAIN comments :
          (/\ comments[k].deleted_at # None
           /\ RestoreComment(comments[k].user_id, comments[k].post_id, k))
              => (last'.status = 200 /\ comments'[k].deleted_at = None)]_vars

\* C16: the restore endpoints of City, Flight and Post answer 404 when the id
\* has no row or the row is not soft-deleted, and answer success only when
\* the row was soft-deleted and is active after the request.
C16_RestoreOfActiveIs404 ==
    [][/\ \A u \in users, c \in CityIds :
             RestoreCity(u, c) =>
                 /\ (c \notin DOMAIN cities \/ cities[c].deleted_at = None)
                        => (last'.status = 404 /\ cities' = cities)
                 /\ last'.status = 200
                        => (cities[c].deleted_at # None /\ cities'[c].deleted_at = None)
       /\ \A u \in users, f \in FlightIds :
             RestoreFlight(u, f) =>
                 /\ (f \notin DOMAIN flights \/ flights[f].deleted_at = None)
                        => (last'.status = 404 /\ flights' = flights)
                 /\ last'.status = 200
                        => (flights[f].deleted_at # None /\ flights'[f].deleted_at = None)
       /\ \A u \in users, p \in PostIds :
             RestorePost(u, p) =>
                 /\ (p \notin DOMAIN posts \/ posts[p].deleted_at = None)
                        => (last'.status = 404 /\ posts' = posts)
                 /\ last'.status = 200
                        => (posts[p].deleted_at # None /\ posts'[p].deleted_at = None)]_vars

\* the rows of a list are active, and total counts the active rows
ListsOnlyActive(data, table) ==
    /\ \A i \in 1..Len(data.items) :
          data.items[i] \in DOMAIN table /\ table[data.items[i]].deleted_at = None
    /\ data.total = Cardinality({i \in DOMAIN table : table[i].deleted_at = None})

\* C17: a read by id of a City, Flight, Post or Comment row whose deleted_at
\* is set finds nothing (404 at the route); the lists of cities, flights and
\* posts hold no such row and their total counts the active rows; no request
\* removes a row from its table.
C17_DeletedRowsHiddenButKept ==
    [][/\ \A c \in DOMAIN cities :
             (cities[c].deleted_at # None /\ ReadCity(c)) => last'.status = 404
       /\ \A f \in DOMAIN flights :
             (flights[f].deleted_at # None /\ ReadFlight(f)) => last'.status = 404
       /\ \A p \in DOMAIN posts :
             (posts[p].deleted_at # None /\ ReadPost(p)) => last'.status = 404
       /\ \A u \in users, k \in DOMAIN comments :
             (comments[k].deleted_at # None /\ DeleteComment(u, comments[k].post_id, k))
                 => (last'.status = 404 /\ comments' = comments)
       /\ (last'.op = "read_cities" /\ ReadCities(last'.body.page, last'.body.size))
              => ListsOnlyActive(last'.body, cities)
       /\ (last'.op = "list_flights" /\ ListFlights(last'.body.page, last'.body.size))
              => ListsOnlyActive(last'.body, flights)
       /\ \A page \in Pages, size \in Sizes :
             (last'.op = "list_posts" /\ ListPosts(page, size, None))
                 => ListsOnlyActive(get_posts_paginated(page, size, None), posts)
       /\ DOMAIN cities \subseteq DOMAIN cities'
       /\ DOMAIN flights \subseteq DOMAIN flights'
       /\ DOMAIN posts \subseteq DOMAIN posts'
       /\ DOMAIN comments \subseteq DOMAIN comments']_vars

\* the list of cities has answered with the one active city while another
\* city is deleted
C17_Witness ==
    /\ last.op = "read_cities"
    /\ last.body.total = 1
    /\ Len(last.body.items) = 1
    /\ \E c \in DOMAIN cities : cities[c].deleted_at # None

\* the rows of pages 1..n of a list, in order
RECURSIVE AllPages(_, _, _)
AllPages(list(_, _), size, n) ==
    IF n = 0 THEN << >> ELSE AllPages(list, size, n - 1) \o list(n, size).items

\* the envelope of page `page` with `size` rows per page of a list whose
\* active rows are `active` and whose sort key is `key`
PageIsSlice(body, list(_, _), page, size, active, key) ==
    LET total == Cardinality(active)
        pages == (total + size - 1) \div size
        all == AllPages(list, size, pages)
        first == (page - 1) * size + 1
        end == IF page * size < total THEN page * size ELSE total
    IN  /\ body.total = total
        /\ body.pages = pages
        /\ body.has_next = (page < pages)
        /\ body.has_previous = (page > 1)
        /\ Len(all) = total
        /\ {all[i] : i \in 1..Len(all)} = active
        /\ \A i, j \in 1..Len(all) : i < j => key[all[i]] <= key[all[j]]
        /\ body.items = [i \in 1..(IF end >= first THEN end - first + 1 ELSE 0) |->
                             all[first + i - 1]]

ListPostsNoFilter(page, size) == get_posts_paginated(page, size, None)

\* C20: for page >= 1 and size >= 1 the lists of cities, flights and posts
\* answer with the slice (page-1)*size .. page*size-1 of the ordered active
\* rows, total the number of active rows, pages = ceil(total/size), has_next
\* = (page < pages), has_previous = (page > 1), and pages 1..pages together
\* hold every active row exactly once.
C20_PageIsSliceOfActiveRows ==
    [][/\ (last'.op = "read_cities" /\ ReadCities(last'.body.page, last'.body.size)) =>
              PageIsSlice(last'.body, get_cities_paginated, last'.body.page,
                          last'.body.size, ActiveIds(cities),
                          [c \in DOMAIN cities |-> cities[c].name])
       /\ (last'.op = "list_flights" /\ ListFlights(last'.body.page, last'.body.size)) =>
              PageIsSlice(last'.body, get_flights_paginated, last'.body.page,
                          last'.body.size, ActiveIds(flights),
                          [f \in DOMAIN flights |-> flights[f].departure])
       /\ \A page \in Pages, size \in Sizes :
             (last'.op = "list_posts" /\ ListPosts(page, size, None)) =>
                 /\ last'.status = 200
                 /\ PageIsSlice(last'.body, ListPostsNoFilter, page, size,
                                ActiveIds(posts),
                                [p \in DOMAIN posts |-> 0 - posts[p].created_at])]_vars

\* the tables of the store
Tables == <<users, emails, photos, cities, flights, reviews, posts, likes, comments>>

\* the step deletes row `before` of a table: only deleted_at changes, to a
\* timestamp
DeletedOnly(before, after) ==
    /\ after.deleted_at # None
    /\ after = [before EXCEPT !.deleted_at = after.deleted_at]

\* the step restores the row: only deleted_at changes, to NULL
RestoredOnly(before, after) == after = [before EXCEPT !.deleted_at = None]

\* C13: for a City, Flight, Post and Comment (by its author), the delete
\* handler on an active row followed by the restore handler gives the active
\* row back with every field but the timestamps as before the deletion,
\* average_rating, review_count and like_count included, and the reviews,
\* photos, comments and likes unchanged: the delete step changes deleted_at
\* alone, the restore step sets deleted_at alone back to NULL, and neither
\* touches another table.
C13_DeleteThenRestoreRoundTrip ==
    [][/\ \A c \in DOMAIN cities :
            /\ (cities[c].deleted_at = None /\ delete_city(c)) =>
                   /\ DeletedOnly(cities[c], cities'[c])
                   /\ UNCHANGED <<reviews, photos, posts, likes, comments, flights>>
            /\ (cities[c].deleted_at # None /\ restore_city(c)) =>
                   /\ RestoredOnly(cities[c], cities'[c])
                   /\ UNCHANGED <<reviews, photos, posts, likes, comments, flights>>
       /\ \A f \in DOMAIN flights :
            /\ (flights[f].deleted_at = None /\ soft_delete_flight(f)) =>
                   /\ DeletedOnly(flights[f], flights'[f])
                   /\ UNCHANGED <<reviews, photos, posts, likes, comments, cities>>
            /\ (flights[f].deleted_at # None /\ restore_flight(f)) =>
                   /\ RestoredOnly(flights[f], flights'[f])
                   /\ UNCHANGED <<reviews, photos, posts, likes, comments, cities>>
       /\ \A p \in DOMAIN posts :
            /\ (posts[p].deleted_at = None /\ soft_delete_post(posts[p].user_id, p)) =>
                   /\ DeletedOnly(posts[p], posts'[p])
                   /\ UNCHANGED <<reviews, photos, likes, comments, cities, flights>>
            /\ (posts[p].deleted_at # None /\ restore_post(posts[p].user_id, p)) =>
                   /\ RestoredOnly(posts[p], posts'[p])
                   /\ UNCHANGED <<reviews, photos, likes, comments, cities, flights>>
       /\ \A k \in DOMAIN comments :
            /\ (/\ comments[k].deleted_at = None
                /\ soft_delete_comment(comments[k].user_id, k)) =>
                   /\ DeletedOnly(comments[k], comments'[k])
                   /\ UNCHANGED <<reviews, photos, likes, posts, cities, flights>>
            /\ (/\ comments[k].deleted_at # None
                /\ restore_comment(comments[k].user_id, k)) =>
                   /\ RestoredOnly(comments[k], comments'[k])
                   /\ UNCHANGED <<reviews, photos, likes, posts, cities, flights>>]_vars

\* restore_post has restored a post that has a like and a comment
C13_Witness ==
    /\ last = [op |-> "restore_post", status |-> 0, commits |-> 1]
    /\ comments # << >>
    /\ \E p \in DOMAIN posts : posts[p].like_count > 0 /\ posts[p].deleted_at = None

\* C15: a delete handler called on an already deleted row writes nothing and
\* keeps the first deleted_at, and a restore handler called on an active row
\* writes nothing and leaves it active, whoever calls it.
C15_DeleteAndRestoreIdempotent ==
    [][/\ \A c \in DOMAIN cities :
            /\ (cities[c].deleted_at # None /\ delete_city(c)) =>
                   UNCHANGED Tables /\ last'.commits = 0
            /\ (cities[c].deleted_at = None /\ restore_city(c)) =>
                   UNCHANGED Tables /\ last'.commits = 0
       /\ \A f \in DOMAIN flights :
            /\ (flights[f].deleted_at # None /\ soft_delete_flight(f)) =>
                   UNCHANGED Tables /\ last'.commits = 0
            /\ (flights[f].deleted_at = None /\ restore_flight(f)) =>
                   UNCHANGED Tables /\ last'.commits = 0
       /\ \A u \in users, p \in DOMAIN posts :
            /\ (posts[p].deleted_at # None /\ soft_delete_post(u, p)) =>
                   UNCHANGED Tables /\ last'.commits = 0
            /\ (posts[p].deleted_at = None /\ restore_post(u, p)) =>
                   UNCHANGED Tables /\ last'.commits = 0
       /\ \A u \in users, k \in DOMAIN comments :
            /\ (comments[k].deleted_at # None /\ soft_delete_comment(u, k)) =>
                   UNCHANGED Tables /\ last'.commits = 0
            /\ (comments[k].deleted_at = None /\ restore_comment(u, k)) =>
                   UNCHANGED Tables /\ last'.commits = 0]_vars

\* soft_delete_post has returned without a commit for a post deleted at an
\* earlier time
C15_Witness ==
    /\ last = [op |-> "soft_delete_post", status |-> 0, commits |-> 0]
    /\ \E p \in DOMAIN posts : posts[p].deleted_at # None /\ posts[p].deleted_at < now

\* the token passes by the words of the claim: signed, not expired, with a
\* subject that is the email of a user
ValidToken(token) ==
    /\ token.present
    /\ token.signed
    /\ ~(token.exp < now)
    /\ token.sub # NoSub
    /\ \E u \in users : emails[u] = token.sub

\* C18: a request to a protected route (create, update, delete, restore,
\* review, comment, toggle like) whose token is missing, forged, expired,
\* without subject or of a subject no user has is answered 401 and changes
\* no table: the handler does not run.
C18_NoChangeWithoutValidToken ==
    [][\A token \in Tokens :
           (~ValidToken(token) /\ ProtectedRequest(token)) =>
               (last'.status = 401 /\ UNCHANGED Tables)]_vars

\* restore_post has refused a token on a store that holds a deleted post
C18_Witness ==
    /\ last = [op |-> "restore_post", status |-> 401]
    /\ \E p \in DOMAIN posts : posts[p].deleted_at # None

\* C19: a registration with an email a user already has is refused as a
\* conflict (400), adds no user and answers with no token; after any number
\* of registrations one after another no two users have the same email.
C19_DuplicateEmailRefused ==
    [][/\ \A raw \in RawEmails :
            ((\E u \in users : emails[u] = EmailStr(raw)) /\ Register(raw)) =>
                /\ last'.status = 400
                /\ "token" \notin DOMAIN last'
                /\ UNCHANGED Tables
       /\ \A u1, u2 \in users' : emails'[u1] = emails'[u2] => u1 = u2]_vars

\* a second registration with an address has been refused after another
\* address was registered
C19_Witness ==
    /\ last = [op |-> "register", status |-> 400]
    /\ Cardinality(users) >= 2

\* C21: every request that opened a session with get_db has it closed in the
\* end, whether the route function returned, raised an HTTPException or
\* raised another error: no slot keeps a session open for ever.
C21_SessionReleased == \A s \in Slots : (req[s] # Idle) ~> (req[s] = Idle)

\* the session of a request whose route function raised an error that is not
\* an HTTPException has been closed
C21_Witness ==
    /\ last = [op |-> "list_posts", status |-> 500]
    /\ AllIdle

\* C22: PATCH /cities/{review_id} sent by the author of an existing review
\* with a new rating reaches update_review: it answers 200 and the review has
\* the rating of the request.
C22_AuthorPatchesReview ==
    [][\A r \in reviews, body \in ReviewBodies :
          PatchCities(r.user_id, ReviewPath(r.id), body) =>
              /\ last'.op = "patch_review"
              /\ last'.status = 200
              /\ \E r2 \in reviews' : r2.id = r.id /\ r2.rating = body.rating]_vars

\* C23: GET /posts/ answers 200 with a page of the posts that are not
\* deleted (all of them when no filter is given, newest first), its total
\* the number of those posts.
C23_ListPostsAnswers ==
    [][\A page \in Pages, size \in Sizes :
          ListPosts(page, size, None) =>
              /\ last'.status = 200
              /\ last'.body.total = Cardinality(ActiveIds(posts))
              /\ \A i \in 1..Len(last'.body.items) :
                     last'.body.items[i] \in ActiveIds(posts)]_vars

\* C24: create_flight and update_flight that name an origin or destination
\* city which is missing or soft-deleted answer 404 and create or change no
\* flight row.
C24_FlightNeedsActiveCities ==
    [][/\ \A o \in CityIds, d \in CityIds :
            (/\ ~get_city_by_id(o) \/ ~get_city_by_id(d)
             /\ CreateFlight(1, Len(flights) + 1, o, d, 1))
                => (last'.status = 404 /\ flights' = flights)
       /\ \A f \in DOMAIN flights, o \in CityIds \cup {Unset}, d \in CityIds \cup {Unset} :
            (/\ \/ o # Unset /\ ~get_city_by_id(o)
                \/ d # Unset /\ ~get_city_by_id(d)
             /\ UpdateFlight(1, f, FlightUpdate(Unset, o, d)))
                => (last'.status = 404 /\ flights' = flights)]_vars

\* C25: creating a post for a flight, a comment or a like for a post, a
\* review for a city, when that parent is missing or soft-deleted, answers
\* 404 and changes no row and no aggregate.
C25_ChildNeedsActiveParent ==
    [][/\ \A u \in users, f \in FlightIds :
            (~get_flight_by_id(f) /\ CreatePost(u, f, "a", "a"))
                => (last'.status = 404 /\ UNCHANGED Tables)
       /\ \A u \in users, p \in PostIds :
            (~(p \in DOMAIN posts /\ posts[p].deleted_at = None)
             /\ (CreateComment(u, p, "a") \/ TogglePostLike(u, p)))
                => (last'.status = 404 /\ UNCHANGED Tables)
       /\ \A u \in users, c \in CityIds, rating \in RatingInputs :
            (~get_city_by_id(c) /\ CreateCityReview(u, c, rating, NoText))
                => (last'.status = 404 /\ UNCHANGED Tables)]_vars

\* a like has been refused on a soft-deleted post that has likes
C25_Witness ==
    /\ last = [op |-> "toggle_post_like", status |-> 404]
    /\ \E p \in DOMAIN posts : posts[p].deleted_at # None /\ posts[p].like_count > 0

\* C26: in every state reached by review submissions, one after another or
\* interleaved, and review updates, a city with a Review row has
\* review_count >= 1, and no update of a review ends in the division by zero
\* (500).
C26_ReviewCountPositive ==
    [][/\ \A c \in DOMAIN cities' :
            CityReviews(c)' # {} => cities'[c].review_count >= 1
       /\ last'.op = "patch_review" => last'.status # 500]_vars

\* a review has been updated in a city whose two interleaved submissions
\* left review_count at 1
C26_Witness ==
    /\ last = [op |-> "patch_review", status |-> 200]
    /\ \E c \in DOMAIN cities :
           Cardinality(CityReviews(c)) = 2 /\ cities[c].review_count = 1

\* the fields of `fields` have in row `after` the value they had in `before`
SameFields(before, after, fields) == \A f \in fields : after[f] = before[f]

\* C27: a PATCH of a city, flight, post or comment leaves every field the
\* request does not give as it was; a PATCH of a city whose body does not
\* mention photos leaves the photos of the city as they were.
C27_PartialUpdateKeepsOmitted ==
    [][/\ \A c \in DOMAIN cities, body \in NameBodies :
            PatchCities(1, CityPath(c), body) =>
                /\ SameFields(cities[c], cities'[c], DOMAIN cities[c] \ {"name"})
                /\ photos'[c] = photos[c]
       /\ \A c \in DOMAIN cities, body \in PhotoBodies :
            PatchCities(1, CityPath(c), body) => cities'[c] = cities[c]
       /\ \A f \in DOMAIN flights, n \in FlightNumbers, o \in CityRefs, d \in CityRefs :
            UpdateFlight(1, f, FlightUpdate(n, o, d)) =>
                SameFields(flights[f], flights'[f],
                           {"departure", "deleted_at"}
                               \cup (IF n = Unset THEN {"flight_number"} ELSE {})
                               \cup (IF o = Unset THEN {"origin_city_id"} ELSE {})
                               \cup (IF d = Unset THEN {"destination_city_id"} ELSE {}))
       /\ \A p \in DOMAIN posts, post_in \in PostUpdates :
            UpdatePost(1, p, post_in) =>
                SameFields(posts[p], posts'[p], DOMAIN posts[p] \ DOMAIN post_in)
       /\ \A p \in DOMAIN posts, k \in DOMAIN comments, comment_in \in CommentUpdates :
            UpdateComment(1, p, k, comment_in) =>
                SameFields(comments[k], comments'[k],
                           DOMAIN comments[k] \ DOMAIN comment_in)]_vars

\* the statuses of the HTTPExceptions the handlers and routes raise
ErrorStatuses == {400, 401, 403, 404}

\* C28: a request that ends in an HTTPException (a duplicate name, flight
\* number, email or review, a missing city or flight, a row of another user)
\* leaves every table as it was before the request.
C28_ErrorsWriteNothing == [][last'.status \in ErrorStatuses => UNCHANGED Tables]_vars

\* restore_post has refused a user who is not the author of the deleted post
C28_Witness ==
    /\ last = [op |-> "restore_post", status |-> 403]
    /\ \E p \in DOMAIN posts : posts[p].deleted_at # None

\* no two rows of cities, soft-deleted ones included, have the same name
UniqueNames ==
    \A c1, c2 \in DOMAIN cities : c1 # c2 => cities[c1].name # cities[c2].name

\* no two rows of flights, soft-deleted ones included, have the same number
UniqueNumbers ==
    \A f1, f2 \in DOMAIN flights :
        f1 # f2 => flights[f1].flight_number # flights[f2].flight_number

\* C29: city names and flight numbers are unique over all rows, soft-deleted
\* ones included, after every create, update, delete and restore; a create or
\* update that gives a name or flight number held by another row (deleted or
\* not) is answered 400 and writes nothing.
C29_NamesAndNumbersUnique ==
    [][/\ UniqueNames' /\ UniqueNumbers'
       /\ \A name \in CityNames :
              /\ (\E c \in DOMAIN cities : cities[c].name = name)
              /\ CreateCity(1, name, << >>)
              => last'.status = 400 /\ UNCHANGED cities
       /\ \A c \in DOMAIN cities, name \in CityNames :
              /\ get_city_by_id(c)
              /\ \E c2 \in DOMAIN cities : c2 # c /\ cities[c2].name = name
              /\ UpdateCity(1, c, [name |-> name, photos |-> NoPhotos])
              => last'.status = 400 /\ UNCHANGED cities
       /\ \A n \in NewFlightNumbers :
              /\ (\E f \in DOMAIN flights : flights[f].flight_number = n)
              /\ CreateFlight(1, n, 1, 1, 1)
              => last'.status = 400 /\ UNCHANGED flights
       /\ \A f \in DOMAIN flights, n \in NewFlightNumbers :
              /\ get_flight_by_id(f)
              /\ \E f2 \in DOMAIN flights : f2 # f /\ flights[f2].flight_number = n
              /\ UpdateFlight(1, f, FlightUpdate(n, Unset, Unset))
              => last'.status = 400 /\ UNCHANGED flights]_vars

\* create_city has refused a name while every city holding a name is
\* soft-deleted: the name of a soft-deleted city is reserved
C29_Witness ==
    /\ last = [op |-> "create_city", status |-> 400]
    /\ \A c \in DOMAIN cities : cities[c].deleted_at # None

\* C30: a refresh token differs from the access token of the same login only
\* by its later expiry, and a request that carries it as bearer token is
\* authenticated as the user of its subject as long as it is not expired,
\* exactly as a request with an access token of that user is; once expired it
\* is answered 401.
C30_RefreshTokenAuthenticates ==
    [][\A s \in Slots :
           (HoldsTokens /\ BearerRequest(s, last.token.refresh_token)) =>
               LET refresh == last.token.refresh_token
                   access == last.token.access_token
               IN  /\ [refresh EXCEPT !.exp = access.exp] = access
                   /\ refresh.exp > access.exp
                   /\ IF refresh.exp < now
                      THEN last'.status = 401 /\ UNCHANGED req
                      ELSE /\ req'[s].pc = "authenticated"
                           /\ emails[req'[s].current_user] = refresh.sub
                           /\ req'[s].current_user =
                                  get_current_active_user(create_access_token(refresh.sub))
                           /\ UNCHANGED last]_vars

\* a request carrying the refresh token of the login in hand has been
\* authenticated, and the access token of that login is expired
C30_Witness ==
    /\ HoldsTokens
    /\ last.token.access_token.exp < now
    /\ \E s \in Slots :
           /\ req[s].pc = "authenticated"
           /\ req[s].token = last.token.refresh_token
           /\ emails[req[s].current_user] = last.token.refresh_token.sub

====
